---- MODULE Spec2Model ----
(***************************************************************************)
(* Treeline reconciliation and balance-projection engine.                  *)
(*                                                                         *)
(* State: the four DuckDB tables (sys_accounts, sys_transactions,          *)
(* sys_balance_snapshots, sys_integrations), the wall clock, the data the  *)
(* SimpleFIN server currently holds, the envelope returned by the most     *)
(* recent command, and a Transaction value a caller holds in memory.  One  *)
(* action per command of the CLI / desktop bridge and per method of        *)
(* Transaction; every action runs the whole service method.                *)
(*                                                                         *)
(* Conventions                                                             *)
(*   Option<T>      <<>> is None, <<x>> is Some(x)                         *)
(*   String         a sequence of one-character strings                    *)
(*   Decimal / f64  an integer number of thousandths (mills); a value      *)
(*                  with two decimal places is a multiple of 10            *)
(*   DateTime<Utc>  an integer number of ticks, TicksPerDay ticks a day    *)
(*   NaiveDate      an integer day number                                  *)
(*   Uuid           a natural number; 0 is Uuid::nil(); Uuid::new_v4() is  *)
(*                  a number not used by any stored row of that table      *)
(*   SHA-256 prefix the tuple of the four hashed fields (injective, i.e.   *)
(*                  hash collisions aside)                                 *)
(***************************************************************************)
EXTENDS Integers, Sequences, FiniteSets, TLC

\* ------------------------------------------------------------------ bounds
TicksPerDay == 2
StartDay == 100
MaxTicks == 1
MaxAccounts == 3
MaxTransactions == 3
MaxSnapshots == 3
MaxBackfillDays == 2
DemoTemplateCount == 2
DemoAccountCount == 1

\* ------------------------------------------------------- program constants
InitialLookbackDays == 90
OverlapDays == 7
DemoWindowDays == 90
ToleranceMills == 10

\* ----------------------------------------------------------------- helpers
None == <<>>
Some(x) == <<x>>
IsSome(o) == o # <<>>
Unwrap(o) == o[1]
UnwrapOr(o, d) == IF o = <<>> THEN d ELSE o[1]

Range(s) == {s[i] : i \in DOMAIN s}
Abs(x) == IF x < 0 THEN -x ELSE x
MaxOf(S) == IF S = {} THEN 0 ELSE CHOOSE x \in S : \A y \in S : y <= x

RECURSIVE SumAmounts(_)
SumAmounts(S) ==
    IF S = {} THEN 0
    ELSE LET t == CHOOSE x \in S : TRUE IN t.amount + SumAmounts(S \ {t})

\* DateTime::date_naive
DateOf(dt) == dt \div TicksPerDay
\* NaiveDate::and_hms_opt(0, 0, 0).and_utc()
Midnight(day) == day * TicksPerDay
\* chrono::Duration::days
Days(n) == n * TicksPerDay

\* ----------------------------------------------------------------- strings
UpperChars == <<"A","B","C","D","E","F","G","H","I","J","K","L","M",
                "N","O","P","Q","R","S","T","U","V","W","X","Y","Z">>
LowerChars == <<"a","b","c","d","e","f","g","h","i","j","k","l","m",
                "n","o","p","q","r","s","t","u","v","w","x","y","z">>
DigitChars == <<"0","1","2","3","4","5","6","7","8","9">>

\* char::to_lowercase on the characters used here
ToLowerChar(c) ==
    IF \E i \in DOMAIN UpperChars : UpperChars[i] = c
    THEN LowerChars[CHOOSE i \in DOMAIN UpperChars : UpperChars[i] = c]
    ELSE c
to_lowercase(s) == [i \in DOMAIN s |-> ToLowerChar(s[i])]

is_alphanumeric(c) == c \in Range(UpperChars) \cup Range(LowerChars) \cup Range(DigitChars)

\* text[i .. i+Len(pat)-1] = pat
OccursAt(text, i, pat) ==
    /\ i + Len(pat) - 1 <= Len(text)
    /\ \A k \in 1..Len(pat) : text[i + k - 1] = pat[k]
Contains(text, pat) == \E i \in 1..(Len(text) + 1) : OccursAt(text, i, pat)

\* str::replace(from, ""): non-overlapping occurrences, left to right
RECURSIVE RemoveAll(_, _)
RemoveAll(s, from) ==
    IF s = <<>> THEN <<>>
    ELSE IF OccursAt(s, 1, from) THEN RemoveAll(SubSeq(s, Len(from) + 1, Len(s)), from)
    ELSE <<Head(s)>> \o RemoveAll(Tail(s), from)

NullWord == <<"n","u","l","l">>

normalize_description(desc) ==
    LET normalized == RemoveAll(desc, NullWord)
    IN  SelectSeq(normalized, is_alphanumeric)

\* a DECIMAL(15,2) column keeps two decimal places: nearest multiple of 10
\* mills (the inputs used here never sit on a midpoint)
RoundToCents(m) ==
    IF m >= 0 THEN ((m + 5) \div 10) * 10 ELSE -(((-m + 5) \div 10) * 10)

\* format!("{:.2}", amount) of a Decimal: the digits after the second
\* decimal place are cut off
Format2dp(m) == IF m >= 0 THEN (m \div 10) * 10 ELSE -(((-m) \div 10) * 10)

\* ------------------------------------------------------------- fingerprint
\* a variant that hashes the posted date as well
calculate_fingerprint_with_posted_date(tx) ==
    <<tx.account_id, tx.transaction_date, Format2dp(tx.amount),
      normalize_description(to_lowercase(UnwrapOr(tx.description, <<>>))), tx.posted_date>>

\* a variant that leaves the account id out of the hash
calculate_fingerprint_without_account(tx) ==
    <<0, tx.transaction_date, Format2dp(tx.amount),
      normalize_description(to_lowercase(UnwrapOr(tx.description, <<>>)))>>

\* a variant that leaves the transaction date out of the hash
calculate_fingerprint_without_date(tx) ==
    <<tx.account_id, 0, Format2dp(tx.amount),
      normalize_description(to_lowercase(UnwrapOr(tx.description, <<>>)))>>

calculate_fingerprint(tx) ==
    LET tx_date == tx.transaction_date
        amount_normalized == Format2dp(tx.amount)
        desc == to_lowercase(UnwrapOr(tx.description, <<>>))
        desc_normalized == normalize_description(desc)
    IN  <<tx.account_id, tx_date, amount_normalized, desc_normalized>>

\* a variant that recomputes the fingerprint whether or not one is present
ensure_fingerprint_recomputing(tx) ==
    [tx EXCEPT !.external_ids.fingerprint = Some(calculate_fingerprint(tx))]

ensure_fingerprint(tx) ==
    IF IsSome(tx.external_ids.fingerprint) THEN tx
    ELSE [tx EXCEPT !.external_ids.fingerprint = Some(calculate_fingerprint(tx))]

\* Transaction::new
TransactionNew(id, account_id, amount, transaction_date) ==
    ensure_fingerprint(
        [id |-> id, account_id |-> account_id,
         external_ids |-> [simplefin |-> None, fingerprint |-> None],
         amount |-> amount, description |-> None,
         transaction_date |-> transaction_date, posted_date |-> transaction_date,
         tags |-> <<>>, deleted_at |-> None])

\* ------------------------------------------------- repository (DuckDB) ops
VARIABLES sys_accounts, sys_transactions, sys_balance_snapshots, sys_integrations,
          now, remote, lastOp, record

vars == <<sys_accounts, sys_transactions, sys_balance_snapshots, sys_integrations,
          now, remote, lastOp, record>>

\* COALESCE(a, b)
Coalesce(a, b) == IF IsSome(a) THEN a ELSE b

\* one INSERT ... ON CONFLICT (account_id) DO UPDATE of bulk_upsert_accounts.
\* The column list of the INSERT has no balance column, and the DO UPDATE
\* clause sets neither balance nor institution_url nor institution_domain.
UpsertAccountRow(tbl, account) ==
    IF \E i \in DOMAIN tbl : tbl[i].id = account.id
    THEN [i \in DOMAIN tbl |->
            IF tbl[i].id = account.id
            THEN [tbl[i] EXCEPT
                    !.name = account.name,
                    !.nickname = Coalesce(tbl[i].nickname, account.nickname),
                    !.account_type = Coalesce(tbl[i].account_type, account.account_type),
                    !.currency = account.currency,
                    !.external_ids = account.external_ids,
                    !.institution_name = Coalesce(account.institution_name, tbl[i].institution_name)]
            ELSE tbl[i]]
    ELSE Append(tbl, [account EXCEPT !.balance = None])

RECURSIVE bulk_upsert_accounts(_, _)
bulk_upsert_accounts(tbl, accounts) ==
    IF accounts = <<>> THEN tbl
    ELSE bulk_upsert_accounts(UpsertAccountRow(tbl, Head(accounts)), Tail(accounts))

\* rows in scan order; balance comes back through f64 and format!("{:.2}")
get_accounts(tbl) == [i \in DOMAIN tbl |-> [tbl[i] EXCEPT !.balance =
                        IF IsSome(@) THEN Some(RoundToCents(Unwrap(@))) ELSE None]]

\* a variant that finds a row for every id
get_account_by_id_any(tbl, account_id) == TRUE

\* success flag of get_account_by_id
get_account_by_id(tbl, account_id) == \E i \in DOMAIN tbl : tbl[i].id = account_id

\* one INSERT ... ON CONFLICT (transaction_id) DO UPDATE of
\* bulk_upsert_transactions; amount is bound as f64 into DECIMAL(15,2)
UpsertTransactionRow(tbl, tx) ==
    IF \E r \in tbl : r.id = tx.id
    THEN {IF r.id = tx.id
          THEN [r EXCEPT !.account_id = tx.account_id,
                         !.external_ids = tx.external_ids,
                         !.amount = RoundToCents(tx.amount),
                         !.description = tx.description,
                         !.transaction_date = tx.transaction_date,
                         !.posted_date = tx.posted_date,
                         !.tags = tx.tags]
          ELSE r : r \in tbl}
    ELSE tbl \cup {[tx EXCEPT !.amount = RoundToCents(tx.amount)]}

RECURSIVE bulk_upsert_transactions(_, _)
bulk_upsert_transactions(tbl, transactions) ==
    IF transactions = <<>> THEN tbl
    ELSE bulk_upsert_transactions(UpsertTransactionRow(tbl, Head(transactions)), Tail(transactions))

\* serde_json::to_string of a string: quotes and backslashes are escaped
RECURSIVE JsonEscape(_)
JsonEscape(s) ==
    IF s = <<>> THEN <<>>
    ELSE (IF Head(s) = "\"" THEN <<"\\", "\"">>
          ELSE IF Head(s) = "\\" THEN <<"\\", "\\">>
          ELSE <<Head(s)>>) \o JsonEscape(Tail(s))

KeySimplefin == <<"\"","s","i","m","p","l","e","f","i","n","\"",":">>
KeyFingerprint == <<"\"","f","i","n","g","e","r","p","r","i","n","t","\"",":">>

\* the external_ids column as text.  The 16 hex digits of a fingerprint are
\* written as the single character "#": no native id used here is made of
\* hex digits only.
JsonText(external_ids) ==
    LET sf == IF IsSome(external_ids.simplefin)
              THEN KeySimplefin \o <<"\"">> \o JsonEscape(Unwrap(external_ids.simplefin)) \o <<"\"">>
              ELSE <<>>
        fp == IF IsSome(external_ids.fingerprint)
              THEN KeyFingerprint \o <<"\"", "#", "\"">>
              ELSE <<>>
        sep == IF sf # <<>> /\ fp # <<>> THEN <<",">> ELSE <<>>
    IN  <<"{">> \o sf \o sep \o fp \o <<"}">>

\* text LIKE '%value%' ("_" matches any one character; no value used here
\* holds a "%")
LikeAt(text, i, pat) ==
    /\ i + Len(pat) - 1 <= Len(text)
    /\ \A k \in 1..Len(pat) : pat[k] = "_" \/ text[i + k - 1] = pat[k]
Like(text, value) == \E i \in 1..(Len(text) + 1) : LikeAt(text, i, value)

\* the statement is built with format!(): a quote inside the value ends the
\* SQL string literal, conn.prepare() fails and the value contributes no row
QueryPrepares(value) == "'" \notin Range(value)

\* ext_ids: the sequence of values of the one-entry maps handed in
get_transactions_by_external_ids(tbl, ext_ids) ==
    UNION {IF QueryPrepares(ext_ids[i])
           THEN {r \in tbl : Like(JsonText(r.external_ids), ext_ids[i])}
           ELSE {} : i \in DOMAIN ext_ids}

get_transactions_by_account(tbl, account_id) == {r \in tbl : r.account_id = account_id}

\* a variant that looks the fingerprints up under the native-id key
get_transaction_counts_by_native_id(tbl, fingerprints) ==
    LET fps == {f \in Range(fingerprints) : \E r \in tbl : r.external_ids.simplefin = Some(f)}
    IN  [f \in fps |-> Cardinality({r \in tbl : r.external_ids.simplefin = Some(f)})]

\* fingerprint -> COUNT(*), one entry per fingerprint that has rows
get_transaction_counts_by_fingerprint(tbl, fingerprints) ==
    LET fps == {f \in Range(fingerprints) : \E r \in tbl : r.external_ids.fingerprint = Some(f)}
    IN  [f \in fps |-> Cardinality({r \in tbl : r.external_ids.fingerprint = Some(f)})]

\* a variant that keeps one snapshot per account, replacing the stored ones
add_balance_replacing(tbl, snapshot) ==
    {s \in tbl : s.account_id # snapshot.account_id}
        \cup {[snapshot EXCEPT !.balance = RoundToCents(snapshot.balance)]}
\* INSERT INTO sys_balance_snapshots; balance is bound as f64 into DECIMAL(15,2)
add_balance(tbl, snapshot) == tbl \cup {[snapshot EXCEPT !.balance = RoundToCents(snapshot.balance)]}

get_balance_snapshots(tbl, account_id, date) ==
    {s \in tbl : s.account_id = account_id /\ DateOf(s.snapshot_time) = date}

\* execute_query("SELECT MAX(transaction_date) as max_date FROM transactions")
MaxTransactionDate(tbl) ==
    IF tbl = {} THEN None ELSE Some(MaxOf({r.transaction_date : r \in tbl}))

\* Uuid::new_v4(): the k-th identifier not used by any row of the table
NewAccountId(tbl, k) == MaxOf({tbl[i].id : i \in DOMAIN tbl}) + k
\* a variant that hands out the identifiers of stored rows again
NewTransactionIdReused(tbl, k) == k
NewTransactionId(tbl, k) == MaxOf({r.id : r \in tbl}) + k
NewSnapshotId(tbl) == MaxOf({s.id : s \in tbl}) + 1

\* ------------------------------------------------------- source adapters
\* a provider Account / Transaction before the service has touched it
ProviderAccount(id, name, currency, ext, balance, iname, iurl, idomain) ==
    [id |-> id, name |-> name, nickname |-> None, account_type |-> None,
     currency |-> currency, external_ids |-> [simplefin |-> Some(ext)],
     balance |-> balance, institution_name |-> iname,
     institution_url |-> iurl, institution_domain |-> idomain]

ProviderTransaction(id, ext, amount, description, date, tags) ==
    [id |-> id, account_id |-> 0,
     external_ids |-> [simplefin |-> ext, fingerprint |-> None],
     amount |-> amount, description |-> description,
     transaction_date |-> date, posted_date |-> date, tags |-> tags,
     deleted_at |-> None]

DemoChecking == <<"d","e","m","o","-","c","h","e","c","k","i","n","g","-","0","0","1">>
DemoSavings == <<"d","e","m","o","-","s","a","v","i","n","g","s","-","0","0","1">>
DemoCredit == <<"d","e","m","o","-","c","r","e","d","i","t","-","0","0","1">>
DemoTxPrefix == <<"d","e","m","o","-","t","x","-">>

\* the accounts of DemoDataProvider::get_accounts, in order
DemoAccountList ==
    << [ext |-> DemoChecking, name |-> "Demo Checking Account", balance |-> 3247850,
        iname |-> "Demo Bank", iurl |-> "https://demo-bank.example.com",
        idomain |-> "demo-bank.example.com"],
       [ext |-> DemoSavings, name |-> "Demo Savings Account", balance |-> 15420500,
        iname |-> "Demo Bank", iurl |-> "https://demo-bank.example.com",
        idomain |-> "demo-bank.example.com"],
       [ext |-> DemoCredit, name |-> "Demo Credit Card", balance |-> -842320,
        iname |-> "Demo Credit Union", iurl |-> "https://demo-credit.example.com",
        idomain |-> "demo-credit.example.com"] >>

\* the head of the template list of DemoDataProvider::get_transactions
DemoTemplateList ==
    << [account |-> DemoChecking, description |-> <<"Q","F","C"," ","G","r","o","c","e","r","y"," ","S","t","o","r","e">>, amount |-> -87430, category |-> "groceries"],
       [account |-> DemoChecking, description |-> <<"S","t","a","r","b","u","c","k","s">>, amount |-> -5750, category |-> "coffee"],
       [account |-> DemoChecking, description |-> <<"S","h","e","l","l"," ","G","a","s"," ","S","t","a","t","i","o","n">>, amount |-> -52000, category |-> "transportation"],
       [account |-> DemoChecking, description |-> <<"N","e","t","f","l","i","x">>, amount |-> -15990, category |-> "entertainment"] >>

\* the model keeps the first DemoAccountCount accounts and the first
\* DemoTemplateCount templates (all of them belong to the first account)
DemoAccounts == SubSeq(DemoAccountList, 1, DemoAccountCount)
DemoTemplates == SubSeq(DemoTemplateList, 1, DemoTemplateCount)

\* format!("{:04}", i)
Pad4(i) == <<DigitChars[((i \div 1000) % 10) + 1], DigitChars[((i \div 100) % 10) + 1],
             DigitChars[((i \div 10) % 10) + 1], DigitChars[(i % 10) + 1]>>

\* DemoDataProvider::get_accounts; first_id + k - 1 is the k-th fresh Uuid
DemoGetAccounts(first_id) ==
    [k \in DOMAIN DemoAccounts |->
        LET a == DemoAccounts[k]
        IN  ProviderAccount(first_id + k - 1, a.name, "USD", a.ext, Some(a.balance),
                            Some(a.iname), Some(a.iurl), Some(a.idomain))]

\* DemoDataProvider::get_transactions: pairs (account native id, Transaction)
DemoGetTransactions(first_id, nowv) ==
    LET start == nowv - Days(DemoWindowDays)
    IN  [k \in DOMAIN DemoTemplates |->
            LET i == k - 1
                t == DemoTemplates[k]
                offset_days == (i * DemoWindowDays) \div Len(DemoTemplates)
                tx_date == start + Days(offset_days)
                tx == ProviderTransaction(first_id + k - 1, Some(DemoTxPrefix \o Pad4(i)), t.amount,
                                          Some(t.description), DateOf(tx_date), <<t.category>>)
            IN  <<t.account, ensure_fingerprint(tx)>>]

\* SimpleFINProvider::get_accounts on the parsed response
SimpleFINGetAccounts(response, first_id) ==
    [k \in DOMAIN response.accounts |->
        LET acc == response.accounts[k]
        IN  ProviderAccount(first_id + k - 1, acc.name, UnwrapOr(acc.currency, "USD"), acc.id,
                            IF IsSome(acc.balance) THEN Some(RoundToCents(Unwrap(acc.balance))) ELSE None,
                            IF IsSome(acc.org) THEN Unwrap(acc.org).name ELSE None,
                            IF IsSome(acc.org) THEN Unwrap(acc.org).url ELSE None,
                            IF IsSome(acc.org) THEN Unwrap(acc.org).domain ELSE None)]

\* the (account id, transaction) pairs of a response, account by account
RECURSIVE ResponsePairs(_)
ResponsePairs(accounts) ==
    IF accounts = <<>> THEN <<>>
    ELSE LET acc == Head(accounts)
         IN  [j \in DOMAIN acc.transactions |-> <<acc.id, acc.transactions[j]>>]
             \o ResponsePairs(Tail(accounts))

\* SimpleFINProvider::get_transactions on the parsed response
SimpleFINGetTransactions(response, first_id) ==
    LET pairs == ResponsePairs(response.accounts)
    IN  [k \in DOMAIN pairs |->
            LET tx == pairs[k][2]
                transaction_date == DateOf(tx.posted)
            IN  <<pairs[k][1],
                  ProviderTransaction(first_id + k - 1, Some(tx.id), RoundToCents(tx.amount), tx.description,
                                      transaction_date,
                                      IF IsSome(tx.category) THEN <<Unwrap(tx.category)>> ELSE <<>>)>>]

\* what the SimpleFIN server answers to GET /accounts?start-date=..&end-date=..:
\* every account it holds by then (late_accounts are the accounts that
\* appear after the request of get_accounts was answered), with the
\* transactions posted in [start, end)
ServerResponse(data, start, end) ==
    LET held == data.accounts \o data.late_accounts
    IN  [accounts |-> [k \in DOMAIN held |->
            [held[k] EXCEPT !.transactions =
                LET InWindow(tx) == start <= tx.posted /\ tx.posted < end
                IN  SelectSeq(@, InWindow)]]]

\* ---------------------------------------------------------------- services
\* a store: the three tables the services read and write
Store(a, t, b) == [accounts |-> a, transactions |-> t, snapshots |-> b]

\* a variant with the comparison turned round
WithinToleranceInverted(a, b) == Abs(a - b) > ToleranceMills

\* s.balance - balance within the tolerance Decimal::new(1, 2)
WithinTolerance(a, b) == Abs(a - b) < ToleranceMills

\* AccountService::add_balance_snapshot; snapshot_date is an Option<NaiveDate>.
\* Returns the envelope's success flag and the snapshot table afterwards.
add_balance_snapshot(st, account_id, balance, snapshot_date, nowv) ==
    IF ~get_account_by_id(st.accounts, account_id)
    THEN [success |-> FALSE, snapshots |-> st.snapshots, calls |-> {}]
    ELSE LET date == UnwrapOr(snapshot_date, DateOf(nowv))
             snapshot_time == Midnight(date)
             existing == get_balance_snapshots(st.snapshots, account_id, date)
         IN  IF \E s \in existing : WithinTolerance(s.balance, balance)
             THEN [success |-> FALSE, snapshots |-> st.snapshots, calls |-> {}]
             ELSE [success |-> TRUE,
                   snapshots |-> add_balance(st.snapshots,
                        [id |-> NewSnapshotId(st.snapshots), account_id |-> account_id,
                         balance |-> balance, snapshot_time |-> snapshot_time]),
                   calls |-> {"add_balance"}]

\* a variant that plans every run as an initial one
calculate_sync_date_range_initial(transactions, nowv) ==
    [start |-> nowv - Days(InitialLookbackDays), end |-> nowv, sync_type |-> "initial"]
\* a variant that takes the overlap back from now instead of from max_date
calculate_sync_date_range_from_now(transactions, nowv) ==
    LET end == nowv
        max_date == MaxTransactionDate(transactions)
    IN  IF IsSome(max_date)
        THEN [start |-> end - Days(OverlapDays), end |-> end, sync_type |-> "incremental"]
        ELSE [start |-> end - Days(InitialLookbackDays), end |-> end, sync_type |-> "initial"]

\* SyncService::calculate_sync_date_range
calculate_sync_date_range(transactions, nowv) ==
    LET end == nowv
        max_date == MaxTransactionDate(transactions)
    IN  IF IsSome(max_date)
        THEN [start |-> Midnight(Unwrap(max_date)) - Days(OverlapDays), end |-> end,
              sync_type |-> "incremental"]
        ELSE [start |-> end - Days(InitialLookbackDays), end |-> end, sync_type |-> "initial"]

\* a variant that keeps the stored id of a matched account but not its
\* account_type
RECURSIVE MapAccountsDroppingType(_, _)
MapAccountsDroppingType(accounts, existing) ==
    IF accounts = <<>> THEN [updated_accounts |-> <<>>, new_accounts |-> <<>>]
    ELSE LET discovered == Head(accounts)
             disc_ext == discovered.external_ids.simplefin
             Matches(i) == /\ IsSome(disc_ext)
                           /\ disc_ext = existing[i].external_ids.simplefin
             first == CHOOSE i \in DOMAIN existing :
                          Matches(i) /\ \A j \in DOMAIN existing : Matches(j) => i <= j
             rest == MapAccountsDroppingType(Tail(accounts), existing)
         IN  IF \E i \in DOMAIN existing : Matches(i)
             THEN [updated_accounts |->
                        <<[discovered EXCEPT !.id = existing[first].id]>> \o rest.updated_accounts,
                   new_accounts |-> rest.new_accounts]
             ELSE [updated_accounts |-> <<discovered>> \o rest.updated_accounts,
                   new_accounts |-> <<discovered>> \o rest.new_accounts]

\* the account-mapping loop of sync_all_integrations: the merged list
\* (updated_accounts) and the unmatched discovered accounts (new_accounts)
RECURSIVE MapAccounts(_, _)
MapAccounts(accounts, existing) ==
    IF accounts = <<>> THEN [updated_accounts |-> <<>>, new_accounts |-> <<>>]
    ELSE LET discovered == Head(accounts)
             disc_ext == discovered.external_ids.simplefin
             Matches(i) == /\ IsSome(disc_ext)
                           /\ IsSome(existing[i].external_ids.simplefin)
                           /\ disc_ext = existing[i].external_ids.simplefin
             matched == \E i \in DOMAIN existing : Matches(i)
             first == CHOOSE i \in DOMAIN existing :
                          Matches(i) /\ \A j \in DOMAIN existing : Matches(j) => i <= j
             rest == MapAccounts(Tail(accounts), existing)
         IN  IF matched
             THEN [updated_accounts |->
                        <<[discovered EXCEPT !.id = existing[first].id,
                                             !.account_type = existing[first].account_type]>>
                        \o rest.updated_accounts,
                   new_accounts |-> rest.new_accounts]
             ELSE [updated_accounts |-> <<discovered>> \o rest.updated_accounts,
                   new_accounts |-> <<discovered>> \o rest.new_accounts]

\* a variant that records no balance snapshot
SnapshotAccountsSkipped(st, accounts, nowv) == [snapshots |-> st.snapshots, calls |-> {}]
\* the add_balance_snapshot calls of a live sync, one per merged account
\* that carries a balance
RECURSIVE SnapshotAccounts(_, _, _)
SnapshotAccounts(st, accounts, nowv) ==
    IF accounts = <<>> THEN [snapshots |-> st.snapshots, calls |-> {}]
    ELSE LET account == Head(accounts)
             r == IF IsSome(account.balance)
                  THEN add_balance_snapshot(st, account.id, Unwrap(account.balance), None, nowv)
                  ELSE [success |-> FALSE, snapshots |-> st.snapshots, calls |-> {}]
             rest == SnapshotAccounts([st EXCEPT !.snapshots = r.snapshots], Tail(accounts), nowv)
         IN  [snapshots |-> rest.snapshots, calls |-> r.calls \cup rest.calls]

\* account_id_map: native account id -> internal id; a HashMap collected
\* from the merged list keeps the last entry of a key
AccountIdMap(updated_accounts) ==
    LET keys == {Unwrap(updated_accounts[i].external_ids.simplefin) :
                    i \in {j \in DOMAIN updated_accounts :
                              IsSome(updated_accounts[j].external_ids.simplefin)}}
        Last(k) == CHOOSE i \in DOMAIN updated_accounts :
                      /\ updated_accounts[i].external_ids.simplefin = Some(k)
                      /\ \A j \in DOMAIN updated_accounts :
                            updated_accounts[j].external_ids.simplefin = Some(k) => j <= i
    IN  [k \in keys |-> updated_accounts[Last(k)].id]

\* a variant that keeps the fingerprint the source adapter has set
RECURSIVE MapTransactionsKeepingFingerprint(_, _)
MapTransactionsKeepingFingerprint(tx_with_accounts, account_id_map) ==
    IF tx_with_accounts = <<>> THEN <<>>
    ELSE LET provider_acc_id == Head(tx_with_accounts)[1]
             tx == Head(tx_with_accounts)[2]
             rest == MapTransactionsKeepingFingerprint(Tail(tx_with_accounts), account_id_map)
         IN  IF provider_acc_id \in DOMAIN account_id_map
             THEN <<ensure_fingerprint(
                        [tx EXCEPT !.account_id = account_id_map[provider_acc_id]])>> \o rest
             ELSE rest
\* a variant that keeps an orphan, under the nil account id
RECURSIVE MapTransactionsKeepingOrphans(_, _)
MapTransactionsKeepingOrphans(tx_with_accounts, account_id_map) ==
    IF tx_with_accounts = <<>> THEN <<>>
    ELSE LET provider_acc_id == Head(tx_with_accounts)[1]
             tx == Head(tx_with_accounts)[2]
             internal_id == IF provider_acc_id \in DOMAIN account_id_map
                            THEN account_id_map[provider_acc_id] ELSE 0
         IN  <<ensure_fingerprint([tx EXCEPT !.account_id = internal_id,
                                             !.external_ids.fingerprint = None])>>
             \o MapTransactionsKeepingOrphans(Tail(tx_with_accounts), account_id_map)

\* the mapping loop: orphans are dropped, the rest get the internal account
\* id and a recomputed fingerprint
RECURSIVE MapTransactions(_, _)
MapTransactions(tx_with_accounts, account_id_map) ==
    IF tx_with_accounts = <<>> THEN <<>>
    ELSE LET provider_acc_id == Head(tx_with_accounts)[1]
             tx == Head(tx_with_accounts)[2]
             rest == MapTransactions(Tail(tx_with_accounts), account_id_map)
         IN  IF provider_acc_id \in DOMAIN account_id_map
             THEN <<ensure_fingerprint(
                        [tx EXCEPT !.account_id = account_id_map[provider_acc_id],
                                   !.external_ids.fingerprint = None])>> \o rest
             ELSE rest

ErrorResult(name, accounts_synced, sync_type, start_date, error) ==
    [integration |-> name, accounts_synced |-> accounts_synced, transactions_synced |-> 0,
     transaction_stats |-> None, sync_type |-> sync_type, start_date |-> start_date,
     error |-> Some(error)]

\* a variant that skips a transaction only when the stored row with its
\* native id belongs to the same account
PartitionTransactionsPerAccount(tbl, mapped_txs) ==
    LET IsNew(tx) == ~\E r \in tbl : /\ IsSome(tx.external_ids.simplefin)
                                    /\ r.external_ids.simplefin = tx.external_ids.simplefin
                                    /\ r.account_id = tx.account_id
    IN  [to_insert |-> SelectSeq(mapped_txs, IsNew), new_count |-> Len(SelectSeq(mapped_txs, IsNew)),
         skipped_count |-> Len(mapped_txs) - Len(SelectSeq(mapped_txs, IsNew))]
\* a variant that counts every mapped transaction as new
PartitionTransactionsCountingAll(tbl, mapped_txs) ==
    LET IsNew(tx) == ~\E r \in tbl : /\ IsSome(tx.external_ids.simplefin)
                                    /\ r.external_ids.simplefin = tx.external_ids.simplefin
    IN  [to_insert |-> SelectSeq(mapped_txs, IsNew), new_count |-> Len(mapped_txs),
         skipped_count |-> Len(mapped_txs) - Len(SelectSeq(mapped_txs, IsNew))]
\* the lookup by native id and the partition into to_insert and skipped
PartitionTransactions(tbl, mapped_txs) ==
    LET HasExt(tx) == IsSome(tx.external_ids.simplefin)
        with_ext == SelectSeq(mapped_txs, HasExt)
        ext_ids == [i \in DOMAIN with_ext |-> Unwrap(with_ext[i].external_ids.simplefin)]
        Keyed(existing_txs) ==
            LET existing_by_ext == {Unwrap(r.external_ids.simplefin) :
                                       r \in {x \in existing_txs : IsSome(x.external_ids.simplefin)}}
                IsNew(tx) == ~(IsSome(tx.external_ids.simplefin)
                               /\ Unwrap(tx.external_ids.simplefin) \in existing_by_ext)
                Counted(to_insert) ==
                    [to_insert |-> to_insert, new_count |-> Len(to_insert),
                     skipped_count |-> Len(mapped_txs) - Len(to_insert)]
            IN  Counted(SelectSeq(mapped_txs, IsNew))
    IN  Keyed(IF ext_ids # <<>> THEN get_transactions_by_external_ids(tbl, ext_ids) ELSE {})

\* one iteration of the integration loop of sync_all_integrations.
\* acc: [store, results, new_accounts_without_type, calls, fetches]
SyncIntegration(acc, name, dry_run, server, nowv) ==
    LET st == acc.store
        AccId == NewAccountId(st.accounts, 1)
        TxId == NewTransactionId(st.transactions, 1)
        acc_failed == name # "demo" /\ server.accounts_fail
        tx_failed == name # "demo" /\ server.transactions_fail
        accounts == IF name = "demo" THEN DemoGetAccounts(AccId)
                    ELSE SimpleFINGetAccounts(server, AccId)
        existing == get_accounts(st.accounts)
        NoType(a) == a.account_type = None
        Fetched(date_range, updated_accounts, after_accounts) ==
            LET tx_with_accounts ==
                    IF name = "demo" THEN DemoGetTransactions(TxId, nowv)
                    ELSE SimpleFINGetTransactions(
                            ServerResponse(server, date_range.start, date_range.end), TxId)
                account_id_map == AccountIdMap(updated_accounts)
                Mapped(mapped_txs) ==
                    LET Parted(p) ==
                            LET persist == ~dry_run /\ p.to_insert # <<>>
                            IN  [after_accounts EXCEPT
                                    !.store.transactions =
                                        IF persist THEN bulk_upsert_transactions(@, p.to_insert)
                                        ELSE @,
                                    !.calls = @ \cup (IF persist THEN {"bulk_upsert_transactions"}
                                                      ELSE {}),
                                    !.results = Append(@,
                                        [integration |-> name,
                                         accounts_synced |-> Len(updated_accounts),
                                         transactions_synced |-> Len(p.to_insert),
                                         transaction_stats |->
                                            Some([discovered |-> Len(mapped_txs),
                                                  new |-> p.new_count,
                                                  skipped |-> p.skipped_count]),
                                         sync_type |-> date_range.sync_type,
                                         start_date |-> Some(DateOf(date_range.start)),
                                         error |-> None])]
                    IN  Parted(PartitionTransactions(st.transactions, mapped_txs))
            IN  IF tx_failed
                THEN [after_accounts EXCEPT !.results = Append(@,
                        ErrorResult(name, Len(updated_accounts), date_range.sync_type,
                                    Some(DateOf(date_range.start)), "transactions fetch failed"))]
                ELSE Mapped(MapTransactions(tx_with_accounts, account_id_map))
        Merged(m) ==
            LET accounts1 == IF dry_run THEN st.accounts
                             ELSE bulk_upsert_accounts(st.accounts, m.updated_accounts)
                Written(snap) ==
                    [acc EXCEPT
                        !.store = Store(accounts1, st.transactions, snap.snapshots),
                        !.new_accounts_without_type = @ \o SelectSeq(m.new_accounts, NoType),
                        !.fetches = @ \o << <<name, "get_accounts">>,
                                            <<name, "get_transactions">> >>,
                        !.calls = @ \cup (IF dry_run THEN {}
                                          ELSE {"bulk_upsert_accounts"} \cup snap.calls)]
            IN  Fetched(calculate_sync_date_range(st.transactions, nowv), m.updated_accounts,
                        Written(IF dry_run THEN [snapshots |-> st.snapshots, calls |-> {}]
                                ELSE SnapshotAccounts([st EXCEPT !.accounts = accounts1],
                                                      m.updated_accounts, nowv)))
    IN  IF acc_failed
        THEN [acc EXCEPT !.results = Append(@,
                ErrorResult(name, 0, "unknown", None, "accounts fetch failed")),
                         !.fetches = Append(@, <<name, "get_accounts">>)]
        ELSE Merged(MapAccounts(accounts, existing))

\* a variant that gives up on the remaining sources after a failed one
RECURSIVE SyncLoopAborting(_, _, _, _, _)
SyncLoopAborting(acc, integrations, dry_run, server, nowv) ==
    IF integrations = <<>> THEN acc
    ELSE LET next == SyncIntegration(acc, Head(integrations), dry_run, server, nowv)
         IN  IF IsSome(next.results[Len(next.results)].error) THEN next
             ELSE SyncLoopAborting(next, Tail(integrations), dry_run, server, nowv)

RECURSIVE SyncLoop(_, _, _, _, _)
SyncLoop(acc, integrations, dry_run, server, nowv) ==
    IF integrations = <<>> THEN acc
    ELSE SyncLoop(SyncIntegration(acc, Head(integrations), dry_run, server, nowv),
                  Tail(integrations), dry_run, server, nowv)

\* SyncService::sync_all_integrations
sync_all_integrations(st, integrations, dry_run, server, nowv) ==
    IF integrations = <<>>
    THEN [success |-> FALSE, store |-> st, results |-> <<>>,
          new_accounts_without_type |-> <<>>, calls |-> {}, fetches |-> <<>>]
    ELSE LET r == SyncLoop([store |-> st, results |-> <<>>,
                            new_accounts_without_type |-> <<>>, calls |-> {},
                            fetches |-> <<>>],
                           integrations, dry_run, server, nowv)
         IN  [success |-> TRUE, store |-> r.store, results |-> r.results,
              new_accounts_without_type |-> r.new_accounts_without_type, calls |-> r.calls,
              fetches |-> r.fetches]

\* CSVProvider::get_transactions on the rows that parsed: a row is its
\* transaction_date, its signed amount and its cleaned description
CSVGetTransactions(rows, first_id) ==
    [k \in DOMAIN rows |->
        [id |-> first_id + k - 1, account_id |-> 0,
         external_ids |-> [simplefin |-> None, fingerprint |-> None],
         amount |-> rows[k].amount, description |-> rows[k].description,
         transaction_date |-> rows[k].transaction_date,
         posted_date |-> rows[k].transaction_date, tags |-> <<>>, deleted_at |-> None]]

\* ImportService::import_csv
import_csv(st, rows, account_id) ==
    IF ~get_account_by_id(st.accounts, account_id)
    THEN [success |-> FALSE, store |-> st, calls |-> {},
          result |-> [transactions_discovered |-> 0, transactions_imported |-> 0,
                      transactions_skipped |-> 0]]
    ELSE LET TxId == NewTransactionId(st.transactions, 1)
             parsed == CSVGetTransactions(rows, TxId)
             transactions == [k \in DOMAIN parsed |->
                                ensure_fingerprint([parsed[k] EXCEPT !.account_id = account_id])]
             discovered == Len(transactions)
             HasFp(tx) == IsSome(tx.external_ids.fingerprint)
             with_fp == SelectSeq(transactions, HasFp)
             fingerprints == [k \in DOMAIN with_fp |-> Unwrap(with_fp[k].external_ids.fingerprint)]
             existing_counts == get_transaction_counts_by_fingerprint(st.transactions, fingerprints)
             existing_fps == {fp \in DOMAIN existing_counts : existing_counts[fp] > 0}
             Keep(tx) == IF IsSome(tx.external_ids.fingerprint)
                         THEN Unwrap(tx.external_ids.fingerprint) \notin existing_fps
                         ELSE TRUE
             to_insert == SelectSeq(transactions, Keep)
             new_count == Len(to_insert)
             skipped == discovered - new_count
         IN  [success |-> TRUE,
              store |-> IF to_insert # <<>>
                        THEN [st EXCEPT !.transactions = bulk_upsert_transactions(@, to_insert)]
                        ELSE st,
              calls |-> IF to_insert # <<>> THEN {"bulk_upsert_transactions"} ELSE {},
              result |-> [transactions_discovered |-> discovered,
                          transactions_imported |-> new_count,
                          transactions_skipped |-> skipped]]

\* a variant that also subtracts the transactions dated on the day itself
future_sum_from_day(txs, date) == SumAmounts({tx \in txs : tx.transaction_date >= date})

\* the sum of the amounts of the transactions dated after date
future_sum(txs, date) == SumAmounts({tx \in txs : tx.transaction_date > date})

\* a variant whose loop stops before start_date
RECURSIVE BackfillDaysExclusive(_, _, _, _, _, _)
BackfillDaysExclusive(r, account, txs, date, start_date, dry_run) ==
    IF date <= start_date THEN r
    ELSE LET current_balance == UnwrapOr(account.balance, 0)
             balance_at_date == current_balance - future_sum(txs, date)
             existing == get_balance_snapshots(r.snapshots, account.id, date)
             should_create == ~\E s \in existing : WithinTolerance(s.balance, balance_at_date)
             snapshot == [id |-> NewSnapshotId(r.snapshots), account_id |-> account.id,
                          balance |-> balance_at_date, snapshot_time |-> Midnight(date)]
             write == should_create /\ ~dry_run
             r1 == [snapshots |-> IF write THEN add_balance(r.snapshots, snapshot) ELSE r.snapshots,
                    created |-> r.created + (IF should_create THEN 1 ELSE 0),
                    skipped |-> r.skipped + (IF should_create THEN 0 ELSE 1),
                    projected |-> r.projected \cup
                        {[account_id |-> account.id, date |-> date, balance |-> balance_at_date]},
                    calls |-> r.calls \cup (IF write THEN {"add_balance"} ELSE {})]
         IN  BackfillDaysExclusive(r1, account, txs, date - 1, start_date, dry_run)
\* the while loop of backfill_balances for one account, from date down to
\* start_date.  r: [snapshots, created, skipped, projected, calls]
RECURSIVE BackfillDays(_, _, _, _, _, _)
BackfillDays(r, account, txs, date, start_date, dry_run) ==
    IF date < start_date THEN r
    ELSE LET current_balance == UnwrapOr(account.balance, 0)
             balance_at_date == current_balance - future_sum(txs, date)
             existing == get_balance_snapshots(r.snapshots, account.id, date)
             should_create == ~\E s \in existing : WithinTolerance(s.balance, balance_at_date)
             snapshot == [id |-> NewSnapshotId(r.snapshots), account_id |-> account.id,
                          balance |-> balance_at_date, snapshot_time |-> Midnight(date)]
             write == should_create /\ ~dry_run
             r1 == [snapshots |-> IF write THEN add_balance(r.snapshots, snapshot) ELSE r.snapshots,
                    created |-> r.created + (IF should_create THEN 1 ELSE 0),
                    skipped |-> r.skipped + (IF should_create THEN 0 ELSE 1),
                    projected |-> r.projected \cup
                        {[account_id |-> account.id, date |-> date, balance |-> balance_at_date]},
                    calls |-> r.calls \cup (IF write THEN {"add_balance"} ELSE {})]
         IN  BackfillDays(r1, account, txs, date - 1, start_date, dry_run)

\* a variant whose loop writes in a dry run as well
RECURSIVE BackfillAccountsWriting(_, _, _, _, _, _)
BackfillAccountsWriting(r, accounts, transactions, end_date, start_date, dry_run) ==
    IF accounts = <<>> THEN r
    ELSE LET account == Head(accounts)
             txs == get_transactions_by_account(transactions, account.id)
         IN  BackfillAccountsWriting(BackfillDays(r, account, txs, end_date, start_date, FALSE),
                                     Tail(accounts), transactions, end_date, start_date, dry_run)

\* the for loop of backfill_balances over the selected accounts
RECURSIVE BackfillAccounts(_, _, _, _, _, _)
BackfillAccounts(r, accounts, transactions, end_date, start_date, dry_run) ==
    IF accounts = <<>> THEN r
    ELSE LET account == Head(accounts)
             txs == get_transactions_by_account(transactions, account.id)
         IN  BackfillAccounts(BackfillDays(r, account, txs, end_date, start_date, dry_run),
                              Tail(accounts), transactions, end_date, start_date, dry_run)

\* BackfillService::backfill_balances; account_ids is an Option<Vec<Uuid>>
backfill_balances(st, account_ids, days, dry_run, nowv) ==
    LET all_accounts == get_accounts(st.accounts)
        Selected(a) == \E i \in DOMAIN Unwrap(account_ids) : Unwrap(account_ids)[i] = a.id
        accounts == IF IsSome(account_ids) THEN SelectSeq(all_accounts, Selected)
                    ELSE all_accounts
        end_date == DateOf(nowv)
        start_date == end_date - days
        r == BackfillAccounts([snapshots |-> st.snapshots, created |-> 0, skipped |-> 0,
                               projected |-> {}, calls |-> {}],
                              accounts, st.transactions, end_date, start_date, dry_run)
    IN  IF accounts = <<>>
        THEN [success |-> FALSE, store |-> st, calls |-> {}, projected |-> {},
              result |-> [accounts_processed |-> 0, snapshots_created |-> 0,
                          snapshots_skipped |-> 0]]
        ELSE [success |-> TRUE, store |-> [st EXCEPT !.snapshots = r.snapshots],
              calls |-> r.calls, projected |-> r.projected,
              result |-> [accounts_processed |-> Len(accounts),
                          snapshots_created |-> r.created,
                          snapshots_skipped |-> r.skipped]]

\* ------------------------------------------------------------------ inputs
CoffeeShop == <<"C","o","f","f","e","e"," ","S","h","o","p">>
Yesterday == StartDay - 1

\* what the SimpleFIN server may hold
ServerTxCoffee == [id |-> <<"T","1">>, posted |-> Midnight(Yesterday) + 1, amount |-> -20000,
                   description |-> Some(CoffeeShop), category |-> None]
ServerTxQuote == [id |-> <<"T","'">>, posted |-> Midnight(Yesterday), amount |-> 5000,
                  description |-> None, category |-> Some("fees")]
ServerTxOld == [id |-> <<"T","0">>, posted |-> Midnight(StartDay - 60),
                amount |-> -1000, description |-> Some(<<"O","l","d">>), category |-> None]

ServerPlain ==
    [accounts |-> << [id |-> <<"A">>, name |-> "Checking", currency |-> None,
                      balance |-> Some(100000),
                      org |-> Some([name |-> Some("Bank"), url |-> Some("https://bank.example"),
                                    domain |-> Some("bank.example")]),
                      transactions |-> <<ServerTxCoffee>>] >>,
     late_accounts |-> <<>>, accounts_fail |-> FALSE, transactions_fail |-> FALSE]

ServerChanged ==
    [accounts |-> << [id |-> <<"A">>, name |-> "Checking Plus", currency |-> Some("EUR"),
                      balance |-> Some(80004),
                      org |-> Some([name |-> None, url |-> Some("https://bank2.example"),
                                    domain |-> Some("bank2.example")]),
                      transactions |-> <<ServerTxCoffee, ServerTxQuote>>] >>,
     late_accounts |-> <<>>, accounts_fail |-> FALSE, transactions_fail |-> FALSE]

ServerShared ==
    [accounts |-> << [id |-> DemoChecking, name |-> "Shared", currency |-> None,
                      balance |-> None, org |-> None,
                      transactions |-> <<>>],
                     [id |-> <<"B">>, name |-> "Savings", currency |-> None,
                      balance |-> Some(50000), org |-> None,
                      transactions |-> <<ServerTxOld>>] >>,
     late_accounts |-> <<>>, accounts_fail |-> FALSE, transactions_fail |-> FALSE]

RemotePool == {ServerPlain, ServerChanged, ServerShared}

\* servers in trouble: the accounts request fails, the transactions request
\* fails, and an account (whose id a demo account has as well) is opened
\* between the two requests
ServerTxLate == [id |-> <<"T","9">>, posted |-> Midnight(Yesterday), amount |-> 3000,
                 description |-> Some(<<"L","a","t","e">>), category |-> None]
ServerAccountsDown == [ServerPlain EXCEPT !.accounts_fail = TRUE]
ServerTransactionsDown == [ServerPlain EXCEPT !.transactions_fail = TRUE]
ServerLate ==
    [ServerPlain EXCEPT !.late_accounts =
        << [id |-> DemoChecking, name |-> "New", currency |-> None, balance |-> None,
            org |-> None, transactions |-> <<ServerTxLate>>] >>]
FaultyPool == {ServerAccountsDown, ServerTransactionsDown, ServerLate}

\* servers whose answer repeats an id: a transaction listed twice, an
\* account listed twice, and an account and a transaction that carry ids
\* the demo source uses as well
ServerTxTwice ==
    [ServerPlain EXCEPT !.accounts[1].transactions = <<ServerTxCoffee, ServerTxCoffee>>]
ServerAccountTwice ==
    [accounts |-> << [id |-> <<"A">>, name |-> "Checking", currency |-> None,
                      balance |-> None, org |-> None, transactions |-> <<>>],
                     [id |-> <<"A">>, name |-> "Checking again", currency |-> None,
                      balance |-> None, org |-> None, transactions |-> <<>>] >>,
     late_accounts |-> <<>>, accounts_fail |-> FALSE, transactions_fail |-> FALSE]
ServerTxDemo == [id |-> DemoTxPrefix \o Pad4(0), posted |-> Midnight(Yesterday), amount |-> -4000,
                 description |-> Some(<<"D","e","m","o">>), category |-> None]
ServerDemoIds ==
    [accounts |-> << [id |-> DemoChecking, name |-> "Shared", currency |-> None,
                      balance |-> None, org |-> None, transactions |-> <<>>],
                     [id |-> <<"B">>, name |-> "Savings", currency |-> None,
                      balance |-> None, org |-> None, transactions |-> <<ServerTxDemo>>] >>,
     late_accounts |-> <<>>, accounts_fail |-> FALSE, transactions_fail |-> FALSE]
RepeatPool == {ServerTxTwice, ServerAccountTwice, ServerDemoIds}
\* CSV files, as the rows that parse
CsvRowCoffee == [transaction_date |-> Yesterday, amount |-> -20000, description |-> Some(CoffeeShop)]
CsvRowRent == [transaction_date |-> StartDay, amount |-> -7000, description |-> None]
CsvPool == {<<CsvRowCoffee, CsvRowCoffee>>, <<CsvRowRent>>}

BalancePool == {100000, 100006}
\* the current balance recorded for an account before a backfill
CurrentBalancePool == {100000}
AccountTypePool == {"checking"}
IntegrationNames == {"demo", "simplefin"}
\* an account id no stored account has
MissingAccountId == MaxAccounts + 1

\* the values a caller gives the fields of a Transaction it holds
CoffeeShopLoud == <<"C","O","F","F","E","E","-","S","H","O","P","!">>
RecordAccountPool == {1, 2}
RecordAmountPool == {-20000, -20004}
RecordDatePool == {Yesterday, StartDay}
RecordDescriptionPool == {None, Some(CoffeeShop), Some(CoffeeShopLoud)}
AssignPool ==
    {<<"account_id", a>> : a \in RecordAccountPool}
    \cup {<<"amount", m>> : m \in RecordAmountPool}
    \cup {<<"transaction_date", d>> : d \in RecordDatePool}
    \cup {<<"description", d>> : d \in RecordDescriptionPool}
    \cup {<<"posted_date", StartDay>>, <<"tags", <<"coffee">>>>}

\* descriptions with the letters n-u-l-l inside a word and as a word
Annulled == <<"a","n","n","u","l","l","e","d">>
Aned == <<"a","n","e","d">>
NullCoffee == <<"N","U","L","L"," ","C","o","f","f","e","e">>
Coffee == <<"c","o","f","f","e","e","!">>
NullDescriptionPool == {Some(Annulled), Some(Aned), Some(NullCoffee), Some(Coffee)}
StoredAccountIds == {sys_accounts[i].id : i \in DOMAIN sys_accounts}
CurrentStore == Store(sys_accounts, sys_transactions, sys_balance_snapshots)

\* ------------------------------------------------------------ command log
\* the envelope returned by the most recent command, kept until the clock
\* or the server data changes
NoOp ==
    [kind |-> "none", dry_run |-> FALSE, success |-> FALSE,
     results |-> <<>>, result |-> <<>>, calls |-> {}, projected |-> {}]

Op(kind, dry_run, success) ==
    [NoOp EXCEPT !.kind = kind, !.dry_run = dry_run, !.success = success]

WithinBounds(st) ==
    /\ Len(st.accounts) <= MaxAccounts
    /\ Cardinality(st.transactions) <= MaxTransactions
    /\ Cardinality(st.snapshots) <= MaxSnapshots

SetStore(st) ==
    /\ WithinBounds(st)
    /\ sys_accounts' = st.accounts
    /\ sys_transactions' = st.transactions
    /\ sys_balance_snapshots' = st.snapshots

\* ------------------------------------------------------------------ system
Init ==
    /\ sys_accounts = <<>>
    /\ sys_transactions = {}
    /\ sys_balance_snapshots = {}
    /\ sys_integrations = <<>>
    /\ now = Midnight(StartDay) + 1
    /\ remote \in RemotePool
    /\ lastOp = NoOp
    /\ record = None

\* tl setup <integration>: SyncService::create_integration with a provider
\* that accepts the token; upsert_integration keeps one row per name
Setup(name) ==
    /\ sys_integrations' = IF name \in Range(sys_integrations) THEN sys_integrations
                           ELSE Append(sys_integrations, name)
    /\ lastOp' = Op("setup", FALSE, TRUE)
    /\ UNCHANGED <<sys_accounts, sys_transactions, sys_balance_snapshots, now, remote, record>>

\* tl sync [--dry-run]
Sync(dry_run) ==
    \E r \in {sync_all_integrations(CurrentStore, sys_integrations, dry_run, remote, now)} :
        /\ SetStore(r.store)
        /\ lastOp' = [Op("sync", dry_run, r.success) EXCEPT
                        !.results = r.results, !.calls = r.calls]
        /\ UNCHANGED <<sys_integrations, now, remote, record>>

\* tl import --file .. --account-id ..
Import(rows, account_id) ==
    \E r \in {import_csv(CurrentStore, rows, account_id)} :
        /\ SetStore(r.store)
        /\ lastOp' = [Op("import", FALSE, r.success) EXCEPT
                        !.result = r.result, !.calls = r.calls]
        /\ UNCHANGED <<sys_integrations, now, remote, record>>

\* tl backfill balances [--account-id ..] --days .. [--dry-run]
Backfill(account_ids, days, dry_run) ==
    \E r \in {backfill_balances(CurrentStore, account_ids, days, dry_run, now)} :
        /\ SetStore(r.store)
        /\ lastOp' = [Op("backfill", dry_run, r.success) EXCEPT
                        !.result = r.result, !.calls = r.calls, !.projected = r.projected]
        /\ UNCHANGED <<sys_integrations, now, remote, record>>

\* tl new balance --account-id .. --balance .. [--date ..]
NewBalance(account_id, balance, date) ==
    \E r \in {add_balance_snapshot(CurrentStore, account_id, balance, date, now)} :
        /\ SetStore([CurrentStore EXCEPT !.snapshots = r.snapshots])
        /\ lastOp' = [Op("snapshot", FALSE, r.success) EXCEPT
                        !.calls = r.calls]
        /\ UNCHANGED <<sys_integrations, now, remote, record>>

\* the desktop shell's execute_query with a write statement: the user
\* classifies an account or records its current balance (the balance column
\* is a DECIMAL(15,2))
EditAccount(i, account_type, balance) ==
    /\ i \in DOMAIN sys_accounts
    /\ sys_accounts' = [sys_accounts EXCEPT
            ![i].account_type = account_type,
            ![i].balance = IF IsSome(balance) THEN Some(RoundToCents(Unwrap(balance))) ELSE None]
    /\ sys_accounts' # sys_accounts
    /\ lastOp' = Op("edit", FALSE, TRUE)
    /\ UNCHANGED <<sys_transactions, sys_balance_snapshots, sys_integrations, now, remote, record>>

\* the clock advances
Tick ==
    /\ now < Midnight(StartDay) + 1 + MaxTicks
    /\ now' = now + 1
    /\ lastOp' = NoOp
    /\ UNCHANGED <<sys_accounts, sys_transactions, sys_balance_snapshots, sys_integrations,
                   remote, record>>

\* the bank data held by the SimpleFIN server changes: the account is
\* renamed and a further transaction is posted
RemoteChange ==
    /\ remote = ServerPlain
    /\ remote' = ServerChanged
    /\ lastOp' = NoOp
    /\ UNCHANGED <<sys_accounts, sys_transactions, sys_balance_snapshots, sys_integrations,
                   now, record>>

\* the server is back to normal: requests succeed and an account opened
\* meanwhile is listed by get_accounts as well
RemoteRecover ==
    /\ remote \in FaultyPool
    /\ remote' = [remote EXCEPT !.accounts = @ \o remote.late_accounts,
                                !.late_accounts = <<>>,
                                !.accounts_fail = FALSE, !.transactions_fail = FALSE]
    /\ lastOp' = NoOp
    /\ UNCHANGED <<sys_accounts, sys_transactions, sys_balance_snapshots, sys_integrations,
                   now, record>>

\* a caller builds a Transaction with Transaction::new
NewTransaction(account_id, amount, transaction_date) ==
    /\ record' = Some(TransactionNew(NewTransactionId(sys_transactions, 1),
                                     account_id, amount, transaction_date))
    /\ lastOp' = Op("new", FALSE, TRUE)
    /\ UNCHANGED <<sys_accounts, sys_transactions, sys_balance_snapshots, sys_integrations,
                   now, remote>>

\* the caller assigns a public field of the Transaction it holds
Assign(field, value) ==
    /\ IsSome(record)
    /\ record' = Some([Unwrap(record) EXCEPT ![field] = value])
    /\ record' # record
    /\ lastOp' = Op("assign", FALSE, TRUE)
    /\ UNCHANGED <<sys_accounts, sys_transactions, sys_balance_snapshots, sys_integrations,
                   now, remote>>

\* tx.ensure_fingerprint()
EnsureFingerprint ==
    /\ IsSome(record)
    /\ record' = Some(ensure_fingerprint(Unwrap(record)))
    /\ lastOp' = Op("ensure_fingerprint", FALSE, TRUE)
    /\ UNCHANGED <<sys_accounts, sys_transactions, sys_balance_snapshots, sys_integrations,
                   now, remote>>

\* tx.external_ids.remove("fingerprint")
RemoveFingerprint ==
    /\ IsSome(record)
    /\ IsSome(Unwrap(record).external_ids.fingerprint)
    /\ record' = Some([Unwrap(record) EXCEPT !.external_ids.fingerprint = None])
    /\ lastOp' = Op("remove_fingerprint", FALSE, TRUE)
    /\ UNCHANGED <<sys_accounts, sys_transactions, sys_balance_snapshots, sys_integrations,
                   now, remote>>

Next ==
    \/ \E name \in IntegrationNames : Setup(name)
    \/ \E dry_run \in BOOLEAN : Sync(dry_run)
    \/ \E rows \in CsvPool, account_id \in StoredAccountIds \cup {MissingAccountId} :
            Import(rows, account_id)
    \/ \E account_ids \in {None} \cup {Some(<<id>>) : id \in StoredAccountIds \cup {MissingAccountId}},
          days \in 0..MaxBackfillDays, dry_run \in BOOLEAN :
            Backfill(account_ids, days, dry_run)
    \/ \E account_id \in StoredAccountIds \cup {MissingAccountId}, balance \in BalancePool,
          date \in {None, Some(Yesterday)} :
            NewBalance(account_id, balance, date)
    \/ \E i \in DOMAIN sys_accounts, account_type \in AccountTypePool, balance \in BalancePool :
            EditAccount(i, Some(account_type), Some(balance))
    \/ Tick
    \/ RemoteChange
    \/ \E account_id \in RecordAccountPool, amount \in RecordAmountPool,
          transaction_date \in RecordDatePool :
            NewTransaction(account_id, amount, transaction_date)
    \/ \E a \in AssignPool : Assign(a[1], a[2])
    \/ EnsureFingerprint
    \/ RemoveFingerprint
    \/ RemoteRecover

Spec == Init /\ [][Next]_vars

NextSync ==
    \/ \E name \in IntegrationNames : Setup(name)
    \/ \E dry_run \in BOOLEAN : Sync(dry_run)
    \/ \E i \in DOMAIN sys_accounts, account_type \in AccountTypePool, balance \in BalancePool :
            EditAccount(i, Some(account_type), Some(balance))
    \/ Tick
    \/ RemoteChange

SpecSync == Init /\ [][NextSync]_vars

NextImport ==
    \/ \E name \in IntegrationNames : Setup(name)
    \/ Sync(FALSE)
    \/ \E rows \in CsvPool, account_id \in StoredAccountIds \cup {MissingAccountId} :
            Import(rows, account_id)

SpecImport == Init /\ [][NextImport]_vars

NextBackfill ==
    \/ Setup("simplefin")
    \/ \E dry_run \in BOOLEAN : Sync(dry_run)
    \/ \E i \in DOMAIN sys_accounts, account_type \in AccountTypePool, balance \in CurrentBalancePool :
            EditAccount(i, Some(account_type), Some(balance))
    \/ \E account_ids \in {None} \cup {Some(<<id>>) : id \in StoredAccountIds \cup {MissingAccountId}},
          days \in 0..MaxBackfillDays, dry_run \in BOOLEAN :
            Backfill(account_ids, days, dry_run)
    \/ \E account_id \in StoredAccountIds \cup {MissingAccountId}, balance \in BalancePool :
            NewBalance(account_id, balance, None)

SpecBackfill == Init /\ [][NextBackfill]_vars

\* the system with a server in trouble
InitFaulty ==
    /\ sys_accounts = <<>>
    /\ sys_transactions = {}
    /\ sys_balance_snapshots = {}
    /\ sys_integrations = <<>>
    /\ now = Midnight(StartDay) + 1
    /\ remote \in FaultyPool
    /\ lastOp = NoOp
    /\ record = None

NextFaulty ==
    \/ \E name \in IntegrationNames : Setup(name)
    \/ \E dry_run \in BOOLEAN : Sync(dry_run)
    \/ RemoteRecover

SpecFaulty == InitFaulty /\ [][NextFaulty]_vars

NextFingerprint ==
    \/ \E account_id \in RecordAccountPool, amount \in RecordAmountPool,
          transaction_date \in RecordDatePool :
            NewTransaction(account_id, amount, transaction_date)
    \/ \E a \in AssignPool : Assign(a[1], a[2])
    \/ EnsureFingerprint
    \/ RemoveFingerprint

SpecFingerprint == Init /\ [][NextFingerprint]_vars

\* the system with any of the servers, syncing and importing
InitCounts ==
    /\ sys_accounts = <<>>
    /\ sys_transactions = {}
    /\ sys_balance_snapshots = {}
    /\ sys_integrations = <<>>
    /\ now = Midnight(StartDay) + 1
    /\ remote \in RemotePool \cup FaultyPool
    /\ lastOp = NoOp
    /\ record = None

NextCounts ==
    \/ \E name \in IntegrationNames : Setup(name)
    \/ \E dry_run \in BOOLEAN : Sync(dry_run)
    \/ \E rows \in CsvPool, account_id \in StoredAccountIds \cup {MissingAccountId} :
            Import(rows, account_id)
    \/ RemoteRecover

SpecCounts == InitCounts /\ [][NextCounts]_vars
\* a caller holding a Transaction whose description it rewrites
NextNull ==
    \/ \E account_id \in RecordAccountPool, amount \in RecordAmountPool,
          transaction_date \in RecordDatePool :
            NewTransaction(account_id, amount, transaction_date)
    \/ \E d \in NullDescriptionPool : Assign("description", d)
    \/ EnsureFingerprint
    \/ RemoveFingerprint

SpecNull == Init /\ [][NextNull]_vars
\* the system with a server whose answer repeats an id
InitRepeat ==
    /\ sys_accounts = <<>>
    /\ sys_transactions = {}
    /\ sys_balance_snapshots = {}
    /\ sys_integrations = <<>>
    /\ now = Midnight(StartDay) + 1
    /\ remote \in RepeatPool
    /\ lastOp = NoOp
    /\ record = None

NextRepeat ==
    \/ \E name \in IntegrationNames : Setup(name)
    \/ \E dry_run \in BOOLEAN : Sync(dry_run)
    \/ \E i \in DOMAIN sys_accounts, account_type \in AccountTypePool :
            EditAccount(i, Some(account_type), None)
    \/ Tick

SpecRepeat == InitRepeat /\ [][NextRepeat]_vars
\* ------------------------------------------------------------------ claims
\* Every property below is stated for the runs a command makes when it is
\* started in the current state, and is checked in every reachable state.

\* a live run and a dry run of tl sync started in the current state
LiveSync == sync_all_integrations(CurrentStore, sys_integrations, FALSE, remote, now)
DrySync == sync_all_integrations(CurrentStore, sys_integrations, TRUE, remote, now)

\* the accounts an integration's provider returns now
DiscoveredAccounts(name) ==
    LET AccId == NewAccountId(sys_accounts, 1)
    IN  IF name = "demo" THEN DemoGetAccounts(AccId) ELSE SimpleFINGetAccounts(remote, AccId)

\* the native ids of the transactions an integration's provider returns when
\* the store holds the transactions tbl
PulledIds(name, tbl) ==
    LET TxId == NewTransactionId(tbl, 1)
        range == calculate_sync_date_range(tbl, now)
        pairs == IF name = "demo" THEN DemoGetTransactions(TxId, now)
                 ELSE SimpleFINGetTransactions(ServerResponse(remote, range.start, range.end), TxId)
    IN  [k \in DOMAIN pairs |-> pairs[k][2].external_ids.simplefin]

\* C1: idempotent sync.  With one configured source that answers the second
\* pull with the accounts and transactions of the first, every transaction
\* carrying a native id, the second of two consecutive live runs reports
\* new = 0 and skipped = discovered and stores no additional transaction.
C1_IdempotentSync ==
    Len(sys_integrations) = 1 =>
        \A r1 \in {LiveSync} :
            \A r2 \in {sync_all_integrations(r1.store, sys_integrations, FALSE, remote, now)} :
                LET name == sys_integrations[1]
                    first == PulledIds(name, sys_transactions)
                    second == PulledIds(name, r1.store.transactions)
                IN  (/\ first = second
                     /\ \A k \in DOMAIN first : IsSome(first[k])
                     /\ r1.results[1].error = None
                     /\ r2.results[1].error = None)
                    => /\ Unwrap(r2.results[1].transaction_stats).new = 0
                       /\ Unwrap(r2.results[1].transaction_stats).skipped =
                            Unwrap(r2.results[1].transaction_stats).discovered
                       /\ r2.store.transactions = r1.store.transactions

\* C2: dry-run equivalence.  A dry run followed by a live run, nothing in
\* between, report the same discovered, new and skipped counts for every
\* configured source.
C2_DryRunEquivalence ==
    \A d \in {DrySync} :
        \A l \in {sync_all_integrations(d.store, sys_integrations, FALSE, remote, now)} :
            /\ Len(d.results) = Len(l.results)
            /\ \A i \in DOMAIN d.results :
                    d.results[i].transaction_stats = l.results[i].transaction_stats

\* the native id of an account row
NativeId(account) == account.external_ids.simplefin

\* C4: account identity preservation.  A discovered account whose native id
\* equals that of a stored account is merged into an account with the stored
\* account's internal id and account_type, and after a live sync every
\* stored row matched by a configured source still has its internal id and
\* the account_type it had before.
C4_AccountIdentityPreserved ==
    /\ \A name \in IntegrationNames :
        \A discovered \in {DiscoveredAccounts(name)} :
            \A m \in {MapAccounts(discovered, get_accounts(sys_accounts))} :
                \A k \in DOMAIN discovered :
                    (\E i \in DOMAIN sys_accounts :
                        IsSome(NativeId(discovered[k]))
                        /\ NativeId(sys_accounts[i]) = NativeId(discovered[k]))
                    => \E i \in DOMAIN sys_accounts :
                            /\ NativeId(sys_accounts[i]) = NativeId(discovered[k])
                            /\ m.updated_accounts[k].id = sys_accounts[i].id
                            /\ m.updated_accounts[k].account_type = sys_accounts[i].account_type
    /\ \A r \in {LiveSync} :
        \A i \in DOMAIN sys_accounts :
            (\E n \in DOMAIN sys_integrations :
                \E a \in Range(DiscoveredAccounts(sys_integrations[n])) :
                    IsSome(NativeId(a)) /\ NativeId(a) = NativeId(sys_accounts[i]))
            => \E j \in DOMAIN r.store.accounts :
                    /\ r.store.accounts[j].id = sys_accounts[i].id
                    /\ r.store.accounts[j].account_type = sys_accounts[i].account_type
                    /\ \A h \in DOMAIN r.store.accounts :
                            r.store.accounts[h].id = sys_accounts[i].id => h = j

\* a live sync has just run over a stored account the user had classified,
\* and the account still carries its id, its type and the source's new name
C4_Witness ==
    /\ lastOp.kind = "sync" /\ ~lastOp.dry_run /\ lastOp.success
    /\ remote = ServerChanged
    /\ \E i \in DOMAIN sys_accounts :
            /\ sys_accounts[i].account_type = Some("checking")
            /\ sys_accounts[i].name = "Checking Plus"
            /\ NativeId(sys_accounts[i]) = Some(<<"A">>)

\* C5: after a live sync by one configured source, every account the source
\* delivered is stored with the name, currency, balance and institution
\* name, url and domain of the pull, whether the account matched a stored
\* row or was newly created.
C5_StoredFieldsReflectPull ==
    Len(sys_integrations) = 1 =>
        \A r \in {LiveSync} :
            \A a \in Range(DiscoveredAccounts(sys_integrations[1])) :
                r.results[1].error = None
                => \E j \in DOMAIN r.store.accounts :
                        LET row == r.store.accounts[j]
                        IN  /\ NativeId(row) = NativeId(a)
                            /\ row.name = a.name
                            /\ row.currency = a.currency
                            /\ row.balance = a.balance
                            /\ row.institution_name = a.institution_name
                            /\ row.institution_url = a.institution_url
                            /\ row.institution_domain = a.institution_domain

\* C10: window planning.  With no stored transaction the planned range is
\* [now - 90 days, now] labelled "initial"; with D the maximum stored
\* transaction date it is [D - 7 days, now] labelled "incremental"; the
\* plan is a function of now and of that maximum alone, and a sync that only
\* plans (a dry run) reports it and leaves the store as it was.
C10_WindowPlanning ==
    \A range \in {calculate_sync_date_range(sys_transactions, now)} :
        /\ range.end = now
        /\ sys_transactions = {} =>
                range.start = now - 90 * TicksPerDay /\ range.sync_type = "initial"
        /\ \A t \in sys_transactions :
                (\A u \in sys_transactions : u.transaction_date <= t.transaction_date)
                => /\ range.start = (t.transaction_date - 7) * TicksPerDay
                   /\ range.sync_type = "incremental"
                   /\ \A T \in SUBSET sys_transactions :
                        t \in T => calculate_sync_date_range(T, now) = range
        /\ \A d \in {DrySync} :
                /\ d.store = CurrentStore
                /\ (d.success /\ d.results[1].error = None)
                    => /\ d.results[1].sync_type = range.sync_type
                       /\ d.results[1].start_date = Some(range.start \div TicksPerDay)

\* a live sync of two sources into an empty store has just planned an
\* initial window for the first and an incremental one for the second
C10_Witness ==
    /\ lastOp.kind = "sync" /\ lastOp.success /\ Len(lastOp.results) = 2
    /\ lastOp.results[1].sync_type = "initial"
    /\ lastOp.results[1].start_date = Some(StartDay - 90)
    /\ lastOp.results[2].sync_type = "incremental"
    /\ lastOp.results[2].start_date = Some(StartDay - 45 - 7)

\* the arguments tl backfill balances may be given in the current state
BackfillSelections ==
    {None} \cup {Some(<<id>>) : id \in StoredAccountIds \cup {MissingAccountId}}

\* C3: dry-run frame.  A dry run of sync_all_integrations or of
\* backfill_balances calls no mutating repository operation and leaves the
\* stored accounts, transactions and balance snapshots as they were.
C3_DryRunFrame ==
    /\ \A d \in {DrySync} : d.calls = {} /\ d.store = CurrentStore
    /\ \A account_ids \in BackfillSelections, days \in 0..MaxBackfillDays :
        \A b \in {backfill_balances(CurrentStore, account_ids, days, TRUE, now)} :
            b.calls = {} /\ b.store = CurrentStore

\* a dry backfill has just counted snapshots to create for an account that
\* a live sync had stored, and no snapshot beyond the sync's own is stored
C3_Witness ==
    /\ lastOp.kind = "backfill" /\ lastOp.dry_run /\ lastOp.success
    /\ lastOp.result.snapshots_created > 0
    /\ lastOp.calls = {}
    /\ sys_transactions # {}
    /\ Cardinality(sys_balance_snapshots) <= 1

\* the fingerprints import_csv computes for the rows of a file
RowFingerprints(rows, account_id) ==
    [k \in DOMAIN rows |->
        calculate_fingerprint([account_id |-> account_id, amount |-> rows[k].amount,
                               description |-> rows[k].description,
                               transaction_date |-> rows[k].transaction_date])]

StoredWithFingerprint(tbl, fp) == {t \in tbl : t.external_ids.fingerprint = Some(fp)}

\* C6: idempotent import.  An import skips exactly the rows whose
\* fingerprint has a stored transaction and inserts every other row, and
\* importing the same rows into the same account again reports
\* imported = 0 and skipped = discovered and stores nothing new.
C6_IdempotentImport ==
    \A rows \in CsvPool, account_id \in StoredAccountIds :
        \A r1 \in {import_csv(CurrentStore, rows, account_id)} :
            \A r2 \in {import_csv(r1.store, rows, account_id)} :
                LET fps == RowFingerprints(rows, account_id)
                    skipped == {k \in DOMAIN rows : StoredWithFingerprint(sys_transactions, fps[k]) # {}}
                    inserted == r1.store.transactions \ sys_transactions
                IN  /\ r1.success /\ r2.success
                    /\ r1.result.transactions_discovered = Len(rows)
                    /\ r1.result.transactions_skipped = Cardinality(skipped)
                    /\ r1.result.transactions_imported = Len(rows) - Cardinality(skipped)
                    /\ sys_transactions \subseteq r1.store.transactions
                    /\ Cardinality(inserted) = r1.result.transactions_imported
                    /\ \A k \in DOMAIN rows :
                            k \notin skipped =>
                                \E t \in inserted :
                                    /\ t.external_ids.fingerprint = Some(fps[k])
                                    /\ t.account_id = account_id
                                    /\ t.transaction_date = rows[k].transaction_date
                                    /\ t.description = rows[k].description
                    /\ \A t \in inserted :
                            \E k \in DOMAIN rows :
                                k \notin skipped /\ t.external_ids.fingerprint = Some(fps[k])
                    /\ r2.result.transactions_discovered = Len(rows)
                    /\ r2.result.transactions_imported = 0
                    /\ r2.result.transactions_skipped = Len(rows)
                    /\ r2.store = r1.store

\* the second import of a two-row file has just been reported as
\* discovered = 2, imported = 0, skipped = 2, the rows of the first import
\* being stored without a native id
C6_Witness ==
    /\ lastOp.kind = "import" /\ lastOp.success
    /\ lastOp.result = [transactions_discovered |-> 2, transactions_imported |-> 0,
                        transactions_skipped |-> 2]
    /\ lastOp.calls = {}
    /\ \E t \in sys_transactions : t.external_ids.simplefin = None

\* C7: one import whose file holds two rows with the same date, amount and
\* description leaves exactly one stored transaction with their fingerprint.
C7_DuplicateRowsStoredOnce ==
    \A rows \in CsvPool, account_id \in StoredAccountIds :
        \A r \in {import_csv(CurrentStore, rows, account_id)} :
            \A i, j \in DOMAIN rows :
                (i # j /\ rows[i] = rows[j] /\ r.success)
                => Cardinality(StoredWithFingerprint(r.store.transactions,
                                    RowFingerprints(rows, account_id)[i])) = 1

\* the snapshots of one account on one calendar day
SameDaySnapshots(tbl, s) ==
    {x \in tbl : x.account_id = s.account_id
                 /\ x.snapshot_time \div TicksPerDay = s.snapshot_time \div TicksPerDay}

\* C8: backfill non-duplication.  No two stored snapshots of one account on
\* one calendar day have balances less than 0.01 apart, and a live backfill
\* repeated over the same range, balance and transactions unchanged,
\* creates no snapshot.
C8_BackfillNonDuplication ==
    /\ \A s \in sys_balance_snapshots :
        \A x \in SameDaySnapshots(sys_balance_snapshots, s) :
            x # s => ~(x.balance - s.balance < 10 /\ s.balance - x.balance < 10)
    /\ \A account_ids \in BackfillSelections, days \in 0..MaxBackfillDays :
        \A r1 \in {backfill_balances(CurrentStore, account_ids, days, FALSE, now)} :
            \A r2 \in {backfill_balances(r1.store, account_ids, days, FALSE, now)} :
                r1.success =>
                    /\ r2.success
                    /\ r2.result.snapshots_created = 0
                    /\ r2.result.snapshots_skipped =
                            r1.result.snapshots_created + r1.result.snapshots_skipped
                    /\ r2.store = r1.store

\* a live backfill has just skipped every day of its range while an account
\* holds two snapshots of one day, exactly 0.01 apart
C8_Witness ==
    /\ lastOp.kind = "backfill" /\ ~lastOp.dry_run /\ lastOp.success
    /\ lastOp.result.snapshots_created = 0
    /\ lastOp.result.snapshots_skipped > 0
    /\ \E s \in sys_balance_snapshots :
        \E x \in SameDaySnapshots(sys_balance_snapshots, s) : x.balance = s.balance + 10

Today == now \div TicksPerDay

\* the stored transactions of the account in row i
LedgerOf(i) == {t \in sys_transactions : t.account_id = sys_accounts[i].id}

\* current balance minus the amounts of the transactions dated after day d
ExpectedBalance(i, d) ==
    (IF sys_accounts[i].balance = None THEN 0 ELSE sys_accounts[i].balance[1])
    - SumAmounts({t \in LedgerOf(i) : t.transaction_date > d})

\* for every selected account and every day of the range, backfill_balances
\* computes ExpectedBalance, and a live run leaves a snapshot of that
\* account and day within 0.01 of it
ProjectionFormula ==
    \A account_ids \in BackfillSelections, days \in 0..MaxBackfillDays, dry_run \in BOOLEAN :
        \A r \in {backfill_balances(CurrentStore, account_ids, days, dry_run, now)} :
            LET selected == {i \in DOMAIN sys_accounts :
                                account_ids = None \/ account_ids[1][1] = sys_accounts[i].id}
            IN  /\ r.success = (selected # {})
                /\ r.projected =
                        {[account_id |-> sys_accounts[i].id, date |-> d,
                          balance |-> ExpectedBalance(i, d)] :
                            i \in selected, d \in (Today - days)..Today}
                /\ ~dry_run =>
                        \A p \in r.projected :
                            \E x \in r.store.snapshots :
                                /\ x.account_id = p.account_id
                                /\ x.snapshot_time \div TicksPerDay = p.date
                                /\ x.balance - p.balance < 10 /\ p.balance - x.balance < 10

\* the rows of the accounts with current balance 100.00 and one transaction,
\* of -20.00, dated yesterday
ScenarioAccounts ==
    {i \in DOMAIN sys_accounts :
        /\ sys_accounts[i].balance = Some(100000)
        /\ \E t \in LedgerOf(i) :
                LedgerOf(i) = {t} /\ t.amount = -20000 /\ t.transaction_date = Today - 1}

\* what a two-day backfill of the account in row i computes for day d
TwoDayProjection(i, d) ==
    {p.balance : p \in {q \in backfill_balances(CurrentStore, Some(<<sys_accounts[i].id>>),
                                                2, TRUE, now).projected : q.date = d}}

\* an account without transactions projects to its current balance on
\* every day
NoLedgerProjection ==
    \A i \in DOMAIN sys_accounts :
        LedgerOf(i) = {} =>
            \A d \in (Today - 2)..Today :
                TwoDayProjection(i, d) =
                    {IF sys_accounts[i].balance = None THEN 0 ELSE sys_accounts[i].balance[1]}

\* C9: backfill projection.  The balance backfill_balances computes for an
\* account and a day d of the range is the account's current balance minus
\* the amounts of its stored transactions dated strictly after d; so with
\* current balance 100.00 and one transaction of -20.00 dated yesterday,
\* today and yesterday project to 100.00 and the day before yesterday to
\* 120.00, and without transactions every day projects to the current
\* balance.
C9_BackfillProjection ==
    /\ ProjectionFormula
    /\ \A i \in ScenarioAccounts :
            /\ TwoDayProjection(i, Today) = {100000}
            /\ TwoDayProjection(i, Today - 1) = {100000}
            /\ TwoDayProjection(i, Today - 2) = {120000}
    /\ NoLedgerProjection

\* C9 as first stated: as above, but with yesterday projecting to 120.00
C9_ProjectionAsStated ==
    /\ ProjectionFormula
    /\ \A i \in ScenarioAccounts :
            /\ TwoDayProjection(i, Today) = {100000}
            /\ TwoDayProjection(i, Today - 1) = {120000}
    /\ NoLedgerProjection

\* a two-day backfill has just projected 100.00, 100.00 and 120.00 for an
\* account with balance 100.00 and one transaction of -20.00 dated yesterday
C9_Witness ==
    /\ lastOp.kind = "backfill" /\ lastOp.success
    /\ \E i \in ScenarioAccounts :
            /\ [account_id |-> sys_accounts[i].id, date |-> Today, balance |-> 100000]
                    \in lastOp.projected
            /\ [account_id |-> sys_accounts[i].id, date |-> Today - 1, balance |-> 100000]
                    \in lastOp.projected
            /\ [account_id |-> sys_accounts[i].id, date |-> Today - 2, balance |-> 120000]
                    \in lastOp.projected

\* ---- Transaction fingerprints

\* the records that differ from r in nothing the fingerprint is said to
\* depend on: another internal id, other tags, another posted date, another
\* native id, a stored fingerprint or none
SameContent(r) ==
    {[r EXCEPT !.id = id, !.tags = tags, !.posted_date = posted,
               !.external_ids.simplefin = sf, !.external_ids.fingerprint = fp] :
        id \in {r.id, r.id + 1}, tags \in {<<>>, <<"coffee">>}, posted \in RecordDatePool,
        sf \in {None, Some(<<"T","1">>)}, fp \in {None, r.external_ids.fingerprint}}

\* C11: fingerprint determinism.  Records equal in account id, transaction
\* date, amount and description have the same fingerprint whatever their
\* internal id, tags, posted date and other external ids, and discarding
\* and recomputing the fingerprint of a record gives the same value again.
C11_FingerprintDeterminism ==
    \A r \in Range(record) :
        /\ \A v \in SameContent(r) : calculate_fingerprint(v) = calculate_fingerprint(r)
        /\ \A e \in {ensure_fingerprint([r EXCEPT !.external_ids.fingerprint = None])} :
            /\ e.external_ids.fingerprint = Some(calculate_fingerprint(r))
            /\ ensure_fingerprint([e EXCEPT !.external_ids.fingerprint = None]) = e

\* ensure_fingerprint has just stored the fingerprint of a record that
\* carries tags and a posted date different from its transaction date
C11_Witness ==
    /\ lastOp.kind = "ensure_fingerprint"
    /\ \E r \in Range(record) :
        /\ r.tags # <<>>
        /\ r.posted_date # r.transaction_date
        /\ r.external_ids.fingerprint = Some(calculate_fingerprint(r))

\* the records that differ from r in exactly one of the four hashed fields
OneFieldChanged(r) ==
    {[r EXCEPT ![a[1]] = a[2]] :
        a \in {x \in AssignPool :
                /\ x[1] \in {"account_id", "transaction_date", "amount", "description"}
                /\ r[x[1]] # x[2]}}

\* an amount as its digits up to the second decimal place
TwoDecimalPlaces(m) == IF m >= 0 THEN m \div 10 ELSE -((-m) \div 10)

\* the letters and digits of a description, lower-cased; an absent
\* description is empty (no description used here holds the word "null")
SignificantText(d) ==
    LET text == IF d = None THEN <<>> ELSE d[1]
        lower == [i \in DOMAIN text |-> ToLowerChar(text[i])]
        IsAlnum(c) == is_alphanumeric(c)
    IN  SelectSeq(lower, IsAlnum)

C19_EnsureFingerprintIdempotent ==
    \A r \in Range(record) :
        \A e \in {ensure_fingerprint(r)} :
            /\ ensure_fingerprint(e) = e
            /\ IsSome(r.external_ids.fingerprint) => e = r
            /\ r.external_ids.fingerprint = None =>
                    e = [r EXCEPT !.external_ids.fingerprint = Some(calculate_fingerprint(r))]

\* ensure_fingerprint has just run on a record whose stored fingerprint is
\* no longer the one its fields give, and the stored one is still there
C19_Witness ==
    /\ lastOp.kind = "ensure_fingerprint"
    /\ \E r \in Range(record) :
        /\ IsSome(r.external_ids.fingerprint)
        /\ r.external_ids.fingerprint # Some(calculate_fingerprint(r))

\* ---- sources in trouble

\* a configured source one of whose requests fails now
FailedSource(name) == name # "demo" /\ (remote.accounts_fail \/ remote.transactions_fail)

\* the native ids the demo source gives its transactions
DemoNativeIds == {Some(DemoTxPrefix \o Pad4(k - 1)) : k \in DOMAIN DemoTemplates}

\* C13: per-source isolation without retry.  A run of sync_all_integrations
\* with at least one configured source succeeds and returns one result per
\* source in configuration order; the result of a source whose account or
\* transaction request fails carries the error, no statistics and no
\* synced transaction, and nothing of that source is stored as a
\* transaction, while every other source is processed to the end; no
\* request of a source is made twice.
C13_PerSourceIsolation ==
    sys_integrations # <<>> =>
        \A dry_run \in BOOLEAN :
            \A r \in {sync_all_integrations(CurrentStore, sys_integrations, dry_run, remote, now)} :
                /\ r.success
                /\ Len(r.results) = Len(sys_integrations)
                /\ \A i \in DOMAIN sys_integrations :
                    LET name == sys_integrations[i]
                        res == r.results[i]
                    IN  /\ res.integration = name
                        /\ IF FailedSource(name)
                           THEN /\ IsSome(res.error)
                                /\ res.transaction_stats = None
                                /\ res.transactions_synced = 0
                           ELSE /\ res.error = None
                                /\ IsSome(res.transaction_stats)
                                /\ res.transactions_synced = Unwrap(res.transaction_stats).new
                                /\ <<name, "get_transactions">> \in Range(r.fetches)
                /\ (\E i \in DOMAIN sys_integrations : FailedSource(sys_integrations[i]))
                    => \A t \in r.store.transactions \ sys_transactions :
                            t.external_ids.simplefin \in DemoNativeIds
                /\ \A k, l \in DOMAIN r.fetches : r.fetches[k] = r.fetches[l] => k = l

\* a live sync has just reported an error for its first source and stored
\* the transactions of its second
C13_Witness ==
    /\ lastOp.kind = "sync" /\ ~lastOp.dry_run /\ lastOp.success
    /\ remote \in {ServerAccountsDown, ServerTransactionsDown}
    /\ Len(lastOp.results) = 2
    /\ IsSome(lastOp.results[1].error)
    /\ lastOp.results[2].error = None
    /\ lastOp.results[2].transactions_synced > 0
    /\ sys_transactions # {}

\* the (source account id, Transaction) pairs an integration's provider
\* returns when the store holds the transactions tbl
PulledPairs(name, tbl) ==
    LET range == calculate_sync_date_range(tbl, now)
    IN  IF name = "demo" THEN DemoGetTransactions(NewTransactionId(tbl, 1), now)
        ELSE SimpleFINGetTransactions(ServerResponse(remote, range.start, range.end),
                                      NewTransactionId(tbl, 1))

\* the native ids of the transactions the server holds for accounts that
\* get_accounts does not list
OrphanIds ==
    UNION {{Some(acc.transactions[j].id) : j \in DOMAIN acc.transactions} :
            acc \in {a \in Range(remote.late_accounts) :
                        \A k \in DOMAIN remote.accounts : remote.accounts[k].id # a.id}}

\* C20: orphan drop.  The account-id mapping of a source holds exactly the
\* native ids of the accounts that source delivered in this run; a pulled
\* transaction whose source account id is not among them is not stored
\* and is counted in none of discovered, new and skipped.
C20_OrphanDrop ==
    /\ \A name \in IntegrationNames :
        \A discovered \in {DiscoveredAccounts(name)} :
            DOMAIN AccountIdMap(MapAccounts(discovered, get_accounts(sys_accounts)).updated_accounts)
                = {Unwrap(NativeId(a)) : a \in Range(discovered)}
    /\ \A dry_run \in BOOLEAN :
        \A r \in {sync_all_integrations(CurrentStore, sys_integrations, dry_run, remote, now)} :
            /\ \A t \in r.store.transactions \ sys_transactions :
                    t.account_id # 0 /\ t.external_ids.simplefin \notin OrphanIds
            /\ (r.success /\ r.results[1].error = None) =>
                \A pairs \in {PulledPairs(sys_integrations[1], sys_transactions)} :
                    LET stats == Unwrap(r.results[1].transaction_stats)
                        known == {NativeId(a) : a \in Range(DiscoveredAccounts(sys_integrations[1]))}
                    IN  /\ stats.discovered =
                                Cardinality({k \in DOMAIN pairs : Some(pairs[k][1]) \in known})
                        /\ stats.new + stats.skipped = stats.discovered

\* a live sync of the demo source and then of a server that holds a
\* transaction for an account it did not list has just counted one
\* transaction for the server; the orphan is not stored although a stored
\* account, the demo source's, has the orphan's account id
C20_Witness ==
    /\ lastOp.kind = "sync" /\ ~lastOp.dry_run /\ lastOp.success
    /\ remote = ServerLate
    /\ Len(lastOp.results) = 2
    /\ lastOp.results[2].integration = "simplefin"
    /\ lastOp.results[2].transaction_stats = Some([discovered |-> 1, new |-> 1, skipped |-> 0])
    /\ \E i \in DOMAIN sys_accounts : NativeId(sys_accounts[i]) = Some(DemoChecking)
    /\ \A t \in sys_transactions : t.external_ids.simplefin # Some(ServerTxLate.id)

\* ---- failure envelopes and frames

\* the account ids no stored account has
UnknownAccountIds == (0..(MaxAccounts + 1)) \ StoredAccountIds

\* C14: not-found handling.  add_balance_snapshot and import_csv given an
\* account id that is not stored fail and leave the store as it was, and
\* backfill_balances given only such ids fails and creates no snapshot.
C14_NotFoundHandling ==
    \A id \in UnknownAccountIds :
        /\ \A balance \in BalancePool, date \in {None, Some(Yesterday)} :
            \A r \in {add_balance_snapshot(CurrentStore, id, balance, date, now)} :
                ~r.success /\ r.snapshots = sys_balance_snapshots /\ r.calls = {}
        /\ \A rows \in CsvPool :
            \A r \in {import_csv(CurrentStore, rows, id)} :
                ~r.success /\ r.store = CurrentStore /\ r.calls = {}
        /\ \A days \in 0..MaxBackfillDays, dry_run \in BOOLEAN :
            \A r \in {backfill_balances(CurrentStore, Some(<<id>>), days, dry_run, now)} :
                /\ ~r.success /\ r.store = CurrentStore /\ r.calls = {}
                /\ r.result.snapshots_created = 0

\* a live backfill has just failed although accounts, transactions and a
\* snapshot are stored: the id it was given is not stored
C14_Witness ==
    /\ lastOp.kind = "backfill" /\ ~lastOp.dry_run /\ ~lastOp.success
    /\ lastOp.calls = {}
    /\ sys_accounts # <<>>
    /\ sys_transactions # {}
    /\ sys_balance_snapshots # {}

\* C15: a run of sync_all_integrations, live or dry, adds no balance
\* snapshot, and no run of sync, backfill or add_balance_snapshot changes
\* or removes a stored snapshot.
C15_SnapshotsOnlyFromBackfillOrUser ==
    /\ \A dry_run \in BOOLEAN :
        \A r \in {sync_all_integrations(CurrentStore, sys_integrations, dry_run, remote, now)} :
            r.store.snapshots = sys_balance_snapshots
    /\ \A days \in 0..MaxBackfillDays, dry_run \in BOOLEAN :
        sys_balance_snapshots \subseteq
            backfill_balances(CurrentStore, None, days, dry_run, now).store.snapshots
    /\ \A id \in StoredAccountIds, balance \in BalancePool :
        sys_balance_snapshots \subseteq
            add_balance_snapshot(CurrentStore, id, balance, None, now).snapshots

\* C16: no run of sync, import or backfill removes a stored account or
\* transaction or changes a stored transaction: every stored transaction
\* row is there afterwards exactly as it was, under an id no other row has,
\* and no row carries a soft-delete timestamp.
C16_TransactionsOnlyGrow ==
    /\ \A t \in sys_transactions : t.deleted_at = None
    /\ \A after \in
            {sync_all_integrations(CurrentStore, sys_integrations, dry_run, remote, now).store :
                dry_run \in BOOLEAN}
            \cup {import_csv(CurrentStore, rows, id).store :
                    rows \in CsvPool, id \in StoredAccountIds \cup {MissingAccountId}}
            \cup {backfill_balances(CurrentStore, None, days, dry_run, now).store :
                    days \in 0..MaxBackfillDays, dry_run \in BOOLEAN} :
        /\ sys_transactions \subseteq after.transactions
        /\ \A t, u \in after.transactions : t.id = u.id => t = u
        /\ \A t \in after.transactions : t.deleted_at = None
        /\ \A i \in DOMAIN sys_accounts :
                \E j \in DOMAIN after.accounts : after.accounts[j].id = sys_accounts[i].id

\* an import has just added rows to a store that holds a synced
\* transaction, which is still there
C16_Witness ==
    /\ lastOp.kind = "import" /\ lastOp.success
    /\ lastOp.result.transactions_imported > 0
    /\ \E t \in sys_transactions : IsSome(t.external_ids.simplefin)
    /\ \E t \in sys_transactions : t.external_ids.simplefin = None

\* the stored transactions of an account that have the date, amount and
\* description of a row
StoredLike(row, account_id) ==
    {t \in sys_transactions :
        /\ t.account_id = account_id
        /\ t.transaction_date = row.transaction_date
        /\ t.amount = row.amount
        /\ t.description = row.description}

\* C18: fingerprints are comparable within one account only.  Rows
\* imported into an account that holds no transaction with their date,
\* amount and description are all imported, whatever other accounts hold.
C18_NoCrossAccountDedup ==
    \A rows \in CsvPool, b \in StoredAccountIds :
        (\A k \in DOMAIN rows : StoredLike(rows[k], b) = {})
        => \A r \in {import_csv(CurrentStore, rows, b)} :
                /\ r.success
                /\ r.result.transactions_imported = Len(rows)
                /\ r.result.transactions_skipped = 0
                /\ \A k \in DOMAIN rows :
                        \E t \in r.store.transactions \ sys_transactions :
                            /\ t.account_id = b
                            /\ t.transaction_date = rows[k].transaction_date
                            /\ t.description = rows[k].description

\* an import has just stored a row in one account although another account
\* holds a transaction with the same date, amount and description
C18_Witness ==
    /\ lastOp.kind = "import" /\ lastOp.success
    /\ lastOp.result.transactions_imported = 1
    /\ lastOp.result.transactions_skipped = 0
    /\ \E t, u \in sys_transactions :
        /\ t.account_id # u.account_id
        /\ t.transaction_date = u.transaction_date
        /\ t.amount = u.amount
        /\ t.description = u.description
        /\ t.external_ids.simplefin = None /\ u.external_ids.simplefin = None

\* C15 (as the code has it): a dry sync adds no balance snapshot; a live
\* sync only adds snapshots, each for an account stored after the sync,
\* timed at today's midnight and not within 0.01 of a snapshot stored
\* before for that account and day; backfill_balances and
\* add_balance_snapshot only add snapshots; no operation changes or
\* removes a stored snapshot.
C15_SnapshotsOnlyAdded ==
    /\ DrySync.store.snapshots = sys_balance_snapshots
    /\ \A r \in {LiveSync} :
        /\ sys_balance_snapshots \subseteq r.store.snapshots
        /\ \A s \in r.store.snapshots \ sys_balance_snapshots :
            /\ \E i \in DOMAIN r.store.accounts : r.store.accounts[i].id = s.account_id
            /\ s.snapshot_time = Midnight(DateOf(now))
            /\ \A e \in sys_balance_snapshots :
                (e.account_id = s.account_id /\ DateOf(e.snapshot_time) = DateOf(now))
                    => Abs(e.balance - s.balance) >= ToleranceMills
    /\ \A days \in 0..MaxBackfillDays, dry_run \in BOOLEAN :
        sys_balance_snapshots \subseteq
            backfill_balances(CurrentStore, None, days, dry_run, now).store.snapshots
    /\ \A id \in StoredAccountIds, balance \in BalancePool :
        sys_balance_snapshots \subseteq
            add_balance_snapshot(CurrentStore, id, balance, None, now).snapshots

\* a live sync has run on a store that held snapshots and has added more
C15_Witness ==
    /\ lastOp.kind = "sync"
    /\ ~lastOp.dry_run
    /\ "add_balance" \in lastOp.calls
    /\ \E a, b \in sys_balance_snapshots :
        a.account_id = b.account_id /\ a.snapshot_time < b.snapshot_time

\* C17: convergence under a faulty pre-filter.  A live sync stores no
\* second row for a source transaction that is already stored: no row it
\* adds has the native id and the account of a row stored before, whether
\* or not the lookup by native id reported that row.
C17_RepeatedPullConverges ==
    \A r \in {LiveSync} :
        \A t \in r.store.transactions \ sys_transactions :
            \A u \in sys_transactions :
                ~(/\ IsSome(t.external_ids.simplefin)
                  /\ u.external_ids.simplefin = t.external_ids.simplefin
                  /\ u.account_id = t.account_id)

\* the store a run of sync_all_integrations has reached when the turn of
\* its i-th source comes
StoreBefore(i, dry_run) ==
    SyncLoop([store |-> CurrentStore, results |-> <<>>, new_accounts_without_type |-> <<>>,
              calls |-> {}, fetches |-> <<>>],
             SubSeq(sys_integrations, 1, i - 1), dry_run, remote, now).store

\* the pulled transactions of a source that are left after the orphan drop
\* when the store holds the transactions tbl
KeptPairs(name, tbl) ==
    LET pairs == PulledPairs(name, tbl)
        known == {NativeId(a) : a \in Range(DiscoveredAccounts(name))}
    IN  {k \in DOMAIN pairs : Some(pairs[k][1]) \in known}

\* C21: count consistency.  For every source that syncs without error,
\* discovered = new + skipped, new = transactions_synced, and discovered
\* is the number of pulled transactions left after the orphan drop; in a
\* live run the stored transactions grow by the sum of the sources'
\* transactions_synced; for import_csv, discovered = imported + skipped
\* and the stored transactions grow by imported.
C21_CountConsistency ==
    /\ \A dry_run \in BOOLEAN :
        \A r \in {sync_all_integrations(CurrentStore, sys_integrations, dry_run, remote, now)} :
            /\ \A i \in DOMAIN r.results :
                r.results[i].error = None =>
                    LET res == r.results[i]
                        stats == Unwrap(res.transaction_stats)
                    IN  /\ stats.discovered = stats.new + stats.skipped
                        /\ stats.new = res.transactions_synced
                        /\ stats.discovered =
                            Cardinality(KeptPairs(sys_integrations[i],
                                                  StoreBefore(i, dry_run).transactions))
            /\ Cardinality(r.store.transactions) = Cardinality(sys_transactions)
                + (IF dry_run THEN 0
                   ELSE SumAmounts({[id |-> i, amount |-> r.results[i].transactions_synced] :
                                        i \in DOMAIN r.results}))
    /\ \A rows \in CsvPool, account_id \in StoredAccountIds \cup {MissingAccountId} :
        \A r \in {import_csv(CurrentStore, rows, account_id)} :
            /\ r.result.transactions_discovered =
                    r.result.transactions_imported + r.result.transactions_skipped
            /\ r.success => r.result.transactions_discovered = Len(rows)
            /\ Cardinality(r.store.transactions) =
                    Cardinality(sys_transactions) + r.result.transactions_imported

\* a live sync has just counted a skipped and a new transaction for a
\* source, after an import stored a row
C21_Witness ==
    /\ lastOp.kind = "sync" /\ ~lastOp.dry_run /\ lastOp.success
    /\ \E i \in DOMAIN lastOp.results :
        /\ lastOp.results[i].error = None
        /\ Unwrap(lastOp.results[i].transaction_stats).skipped > 0
        /\ Unwrap(lastOp.results[i].transaction_stats).new > 0
    /\ \E t \in sys_transactions : t.external_ids.simplefin = None

\* a transaction row that references an account of the table accounts and
\* carries the fingerprint of its own content
Resolved(t, accounts) ==
    /\ t.account_id # 0
    /\ \E i \in DOMAIN accounts : accounts[i].id = t.account_id
    /\ t.external_ids.fingerprint = Some(calculate_fingerprint(t))

\* C22: every transaction a live sync or an import stores references a
\* stored account, never the nil account id the source adapter has set,
\* and its fingerprint is the one computed over that account id; the
\* fingerprint the demo adapter has set over the nil account id is not the
\* stored one.
C22_ResolvedAccountAndFingerprint ==
    /\ \A r \in {LiveSync} :
        \A t \in r.store.transactions \ sys_transactions : Resolved(t, r.store.accounts)
    /\ \A rows \in CsvPool, account_id \in StoredAccountIds \cup {MissingAccountId} :
        \A r \in {import_csv(CurrentStore, rows, account_id)} :
            \A t \in r.store.transactions \ sys_transactions :
                Resolved(t, r.store.accounts) /\ t.account_id = account_id
    /\ \A pairs \in {DemoGetTransactions(NewTransactionId(sys_transactions, 1), now)} :
        \A k \in DOMAIN pairs :
            /\ pairs[k][2].account_id = 0
            /\ IsSome(pairs[k][2].external_ids.fingerprint)
            /\ \A t \in sys_transactions :
                t.external_ids.fingerprint # pairs[k][2].external_ids.fingerprint

\* a live sync has just stored transactions of the demo source, whose
\* adapter sets a fingerprint, next to a row stored by an import
C22_Witness ==
    /\ lastOp.kind = "sync" /\ ~lastOp.dry_run
    /\ "bulk_upsert_transactions" \in lastOp.calls
    /\ \E t \in sys_transactions : t.external_ids.simplefin \in DemoNativeIds
    /\ \E t \in sys_transactions : t.external_ids.simplefin = None

\* a description without its words "null": lower-cased, cut into words at
\* the non-alphanumeric characters, the words equal to "null" left out and
\* the remaining words joined without separator
RECURSIVE WithoutNullWords(_, _)
WithoutNullWords(s, word) ==
    LET kept == IF word = NullWord THEN <<>> ELSE word
    IN  IF s = <<>> THEN kept
        ELSE IF is_alphanumeric(Head(s)) THEN WithoutNullWords(Tail(s), Append(word, Head(s)))
        ELSE kept \o WithoutNullWords(Tail(s), <<>>)

WholeWordText(d) == WithoutNullWords(to_lowercase(UnwrapOr(d, <<>>)), <<>>)

\* C23: only the whole word "null" is removed from a description.  Two
\* records equal in account, date and amount have the same fingerprint
\* exactly when their descriptions are the same after lower-casing,
\* removal of the words "null" and stripping of the non-alphanumeric
\* characters: "annulled" and "aned" get different fingerprints.
C23_WholeWordNullOnly ==
    IsSome(record) =>
        \A d \in NullDescriptionPool :
            LET r == Unwrap(record)
                other == [r EXCEPT !.description = d]
            IN  (calculate_fingerprint(r) = calculate_fingerprint(other))
                    <=> (WholeWordText(r.description) = WholeWordText(d))

\* the stored accounts a selection of backfill_balances picks
SelectedIds(account_ids) ==
    IF IsSome(account_ids) THEN StoredAccountIds \cap Range(Unwrap(account_ids))
    ELSE StoredAccountIds

\* C24: backfill range and termination.  backfill_balances with days = n
\* processes, for each selected stored account, exactly the n + 1 days
\* from today back to today - n, each once, and returns
\* snapshots_created + snapshots_skipped = (n + 1) x accounts_processed;
\* with days = 0 only today is processed.
C24_BackfillRange ==
    \A account_ids \in BackfillSelections, days \in 0..MaxBackfillDays, dry_run \in BOOLEAN :
        \A r \in {backfill_balances(CurrentStore, account_ids, days, dry_run, now)} :
            /\ r.success <=> SelectedIds(account_ids) # {}
            /\ r.result.accounts_processed = Cardinality(SelectedIds(account_ids))
            /\ {<<p.account_id, p.date>> : p \in r.projected}
                = SelectedIds(account_ids) \X ((DateOf(now) - days)..DateOf(now))
            /\ Cardinality(r.projected) = (days + 1) * r.result.accounts_processed
            /\ r.result.snapshots_created + r.result.snapshots_skipped
                = (days + 1) * r.result.accounts_processed
            /\ dry_run => r.store = CurrentStore
            /\ Cardinality(r.store.snapshots)
                = Cardinality(sys_balance_snapshots)
                    + (IF dry_run THEN 0 ELSE r.result.snapshots_created)

\* a dry backfill over the longest range has just counted one day more
\* than the number of days asked for, some to create and some to skip
C24_Witness ==
    /\ lastOp.kind = "backfill" /\ lastOp.dry_run /\ lastOp.success
    /\ lastOp.result.accounts_processed = 1
    /\ Cardinality(lastOp.projected) = MaxBackfillDays + 1
    /\ lastOp.result.snapshots_created > 0
    /\ lastOp.result.snapshots_skipped > 0
    /\ lastOp.result.snapshots_created + lastOp.result.snapshots_skipped = MaxBackfillDays + 1

\* C25: sync decides skip versus insert from the native id alone.  For
\* every source that syncs without error, the transactions counted as
\* skipped are exactly the pulled transactions, left after the orphan
\* drop, whose native id a transaction stored before the source's turn
\* carries; all others are counted as new, whatever their fingerprint.
C25_SkipByNativeIdAlone ==
    \A dry_run \in BOOLEAN :
        \A r \in {sync_all_integrations(CurrentStore, sys_integrations, dry_run, remote, now)} :
            \A i \in DOMAIN r.results :
                r.results[i].error = None =>
                    \A tbl \in {StoreBefore(i, dry_run).transactions} :
                        LET pairs == PulledPairs(sys_integrations[i], tbl)
                            IsStored(k) == \E u \in tbl :
                                u.external_ids.simplefin = pairs[k][2].external_ids.simplefin
                            kept == KeptPairs(sys_integrations[i], tbl)
                            stats == Unwrap(r.results[i].transaction_stats)
                        IN  /\ stats.skipped = Cardinality({k \in kept : IsStored(k)})
                            /\ stats.new = Cardinality({k \in kept : ~IsStored(k)})

\* C26: no two stored transactions carry the same native transaction id.
C26_NativeTransactionIdsUnique ==
    \A t, u \in sys_transactions :
        (IsSome(t.external_ids.simplefin) /\ t.external_ids.simplefin = u.external_ids.simplefin)
            => t = u

\* C27: no two stored accounts carry the same native account id.
C27_NativeAccountIdsUnique ==
    \A i, j \in DOMAIN sys_accounts :
        (IsSome(NativeId(sys_accounts[i])) /\ NativeId(sys_accounts[i]) = NativeId(sys_accounts[j]))
            => i = j

\* the internal ids of the account rows / transaction rows that carry a
\* native id
AccountRowsOf(accounts, ext) == {accounts[i].id : i \in {j \in DOMAIN accounts : NativeId(accounts[j]) = ext}}
TransactionRowsOf(tbl, ext) == {t.id : t \in {u \in tbl : u.external_ids.simplefin = ext}}

\* C28: one id namespace for all integrations.  In a live run, for every
\* source that syncs without error, whatever its name: a discovered
\* account whose native id a stored account carries when the source's
\* turn comes is merged into the stored rows and creates no row, and a
\* pulled transaction whose native id a stored transaction carries then is
\* skipped and creates no row, whichever source has stored them.
C28_SharedIdNamespace ==
    \A r \in {LiveSync} :
        \A i \in DOMAIN r.results :
            r.results[i].error = None =>
                \A before \in {StoreBefore(i, FALSE)}, after \in {StoreBefore(i + 1, FALSE)} :
                    LET name == sys_integrations[i]
                        pairs == PulledPairs(name, before.transactions)
                    IN  /\ \A a \in Range(DiscoveredAccounts(name)) :
                            AccountRowsOf(before.accounts, NativeId(a)) # {} =>
                                AccountRowsOf(after.accounts, NativeId(a))
                                    = AccountRowsOf(before.accounts, NativeId(a))
                        /\ \A k \in KeptPairs(name, before.transactions) :
                            LET ext == pairs[k][2].external_ids.simplefin
                            IN  TransactionRowsOf(before.transactions, ext) # {} =>
                                    TransactionRowsOf(after.transactions, ext)
                                        = TransactionRowsOf(before.transactions, ext)

\* a live sync of the server and then of the demo source has just merged
\* the demo account into the account the server had stored under the same
\* native id, and skipped the demo transaction whose native id a
\* transaction of another account of the server carries
C28_Witness ==
    /\ lastOp.kind = "sync" /\ ~lastOp.dry_run /\ lastOp.success
    /\ remote = ServerDemoIds
    /\ sys_integrations = <<"simplefin", "demo">>
    /\ Cardinality(AccountRowsOf(sys_accounts, Some(DemoChecking))) = 1
    /\ Cardinality(TransactionRowsOf(sys_transactions, Some(ServerTxDemo.id))) = 1
    /\ \E i \in DOMAIN sys_accounts : sys_accounts[i].name = "Demo Checking Account"
    /\ \A i \in DOMAIN sys_accounts : sys_accounts[i].name # "Shared"
    /\ \E t \in sys_transactions : t.external_ids.simplefin = Some(DemoTxPrefix \o Pad4(1))

\* C29: in a live run the window of each source is planned from the store
\* as it is when the source's turn comes.  A source whose accounts were
\* fetched is planned as "initial", from 90 days before now, exactly when
\* the store then holds no transaction of any source, and otherwise as
\* "incremental", from 7 days before the newest stored transaction date,
\* the transactions stored earlier in the same run included.
C29_WindowPlannedPerSource ==
    \A r \in {LiveSync} :
        \A i \in DOMAIN r.results :
            r.results[i].sync_type # "unknown" =>
                \A tbl \in {StoreBefore(i, FALSE).transactions} :
                    IF tbl = {}
                    THEN /\ r.results[i].sync_type = "initial"
                         /\ r.results[i].start_date = Some(DateOf(now - Days(InitialLookbackDays)))
                    ELSE /\ r.results[i].sync_type = "incremental"
                         /\ r.results[i].start_date =
                                Some(MaxOf({t.transaction_date : t \in tbl}) - OverlapDays)

\* a live sync on a store without transactions has just planned its first
\* source as initial and its second, which had never synced before, as
\* incremental
C29_Witness ==
    /\ lastOp.kind = "sync" /\ ~lastOp.dry_run /\ lastOp.success
    /\ Len(lastOp.results) = 2
    /\ lastOp.results[1].sync_type = "initial"
    /\ lastOp.results[1].transactions_synced > 0
    /\ lastOp.results[2].sync_type = "incremental"
    /\ lastOp.results[2].accounts_synced > 0
    /\ lastOp.results[2].error = None

\* C30: partial failure is not rolled back.  In a live run, a source whose
\* transaction fetch fails leaves its accounts upserted and a balance
\* snapshot of today stored for each of them that carries a balance,
\* stores no transaction, and reports the error with accounts_synced = the
\* number of merged accounts, transactions_synced = 0 and no statistics; a
\* source whose account fetch fails stores nothing and reports
\* accounts_synced = 0.
C30_PartialFailureKept ==
    \A r \in {LiveSync} :
        \A i \in DOMAIN r.results :
            IsSome(r.results[i].error) =>
                \A before \in {StoreBefore(i, FALSE)}, after \in {StoreBefore(i + 1, FALSE)} :
                    LET res == r.results[i]
                        AccId == NewAccountId(before.accounts, 1)
                        discovered == IF sys_integrations[i] = "demo" THEN DemoGetAccounts(AccId)
                                      ELSE SimpleFINGetAccounts(remote, AccId)
                    IN  /\ res.transactions_synced = 0
                        /\ res.transaction_stats = None
                        /\ after.transactions = before.transactions
                        /\ IF remote.accounts_fail
                           THEN /\ after = before
                                /\ res.accounts_synced = 0
                                /\ res.sync_type = "unknown"
                           ELSE /\ res.accounts_synced = Len(discovered)
                                /\ after.accounts =
                                        bulk_upsert_accounts(before.accounts,
                                            MapAccounts(discovered, get_accounts(before.accounts)).updated_accounts)
                                /\ \A a \in Range(discovered) :
                                    /\ AccountRowsOf(after.accounts, NativeId(a)) # {}
                                    /\ IsSome(a.balance) =>
                                        \A id \in AccountRowsOf(after.accounts, NativeId(a)) :
                                            \E s \in after.snapshots :
                                                /\ s.account_id = id
                                                /\ s.snapshot_time = Midnight(DateOf(now))
                                                /\ Abs(s.balance - Unwrap(a.balance)) < ToleranceMills
                                /\ before.snapshots \subseteq after.snapshots

\* a live sync has just reported the failed transaction fetch of the
\* server; the server's account and today's snapshot of its balance are
\* stored, none of its transactions is
C30_Witness ==
    /\ lastOp.kind = "sync" /\ ~lastOp.dry_run /\ lastOp.success
    /\ remote = ServerTransactionsDown
    /\ \E i \in DOMAIN lastOp.results :
        /\ lastOp.results[i].integration = "simplefin"
        /\ IsSome(lastOp.results[i].error)
        /\ lastOp.results[i].accounts_synced = 1
    /\ \E i \in DOMAIN sys_accounts :
        /\ NativeId(sys_accounts[i]) = Some(<<"A">>)
        /\ \E s \in sys_balance_snapshots :
            s.account_id = sys_accounts[i].id /\ s.balance = 100000
    /\ \A t \in sys_transactions : t.external_ids.simplefin # Some(ServerTxCoffee.id)

====
